---- MODULE Spec2Model ----
(***************************************************************************)
(* Model of the Ignition Syncing Tool: the UDT definition synchronisation  *)
(* engine (utils/udtSync.ts) and the Sync UDT Definitions view that drives *)
(* it (components/SyncUdtDefinitions.tsx).                                 *)
(*                                                                         *)
(* JSON values are tagged pairs:                                           *)
(*   <<"s", str>>   a string            <<"n", lit>>  a number/true/false/ *)
(*   <<"a", seq>>   an array                          null literal         *)
(*   <<"o", seq>>   an object: the sequence of its <<key, value>> entries  *)
(*                  in insertion order (keys are distinct)                 *)
(* A JavaScript string that is only compared or concatenated is a TLA+     *)
(* string; a serialisation (JSON.stringify, canonicalizeJson) is the       *)
(* sequence of its tokens, ordered as String.prototype.localeCompare       *)
(* orders the characters they are made of.                                 *)
(***************************************************************************)
EXTENDS Integers, Sequences, FiniteSets, TLC

VARIABLES
    files,                  \* useState<File[]>: the uploaded files
    syncResult,             \* useState<UdtSyncResult | null>: <<>> is null, <<r>> a result
    unionMergeSelections,   \* useState<Set<string>>
    errorMessage,           \* useState<string>
    syncRuns,               \* the files of each handleSyncUdts call awaiting file.text()
    jv,                     \* canonicaliser harness: the current JSON value
    jprev,                  \* canonicaliser harness: the value before the last step
    jlast,                  \* canonicaliser harness: the last step taken
    parsedList,             \* library caller: the ParsedUdtFile[] built so far
    libOutcome,             \* library caller: what the last call returned or threw
    libLast,                \* library caller: the last call made
    libInput,               \* library caller: the arguments of that call
    trFiles,                \* SyncTranslation: useState<File[]> files
    mergedTerms,            \* SyncTranslation: useState<TranslationTerm[]>
    conflicts,              \* SyncTranslation: useState<TranslationConflict[]>
    selectedConflictValues, \* SyncTranslation: useState<Map<string, string>>, as <<key, value>> pairs
    mergeRuns,              \* SyncTranslation: the files of each handleMerge call awaiting file.text()
    translationFile,        \* TranslationCleaner: useState<File | null>
    translationTerms,       \* TranslationCleaner: useState<TranslationTerm[]>
    projectZipFiles,        \* TranslationCleaner: useState<File[]>
    analysis,               \* TranslationCleaner: useState<CleanerAnalysisResult | null>
    isAnalyzing,            \* TranslationCleaner: useState<boolean>
    cleanerError,           \* TranslationCleaner: useState<string> errorMessage
    analysisRun,            \* TranslationCleaner: what the runAnalysis call awaiting the ZIPs captured
    cleanedExport           \* TranslationCleaner: the terms of the last cleaned XML written

viewVars == <<files, syncResult, unionMergeSelections, errorMessage, syncRuns>>
canonVars == <<jv, jprev, jlast>>
libVars == <<parsedList, libOutcome, libLast, libInput>>

trVars == <<trFiles, mergedTerms, conflicts, selectedConflictValues, mergeRuns>>
tcVars == <<translationFile, translationTerms, projectZipFiles, analysis, isAnalyzing,
            cleanerError, analysisRun, cleanedExport>>

vars == <<viewVars, canonVars, libVars, trVars, tcVars>>

-----------------------------------------------------------------------------
(* Generic sequence helpers.                                               *)

Range(s) == {s[i] : i \in 1..Len(s)}

\* a sequence given as a function on 1..n, as a tuple
MkSeq(f) == <<>> \o f

RECURSIVE FlattenSeq(_)
FlattenSeq(ss) ==
    IF ss = <<>> THEN <<>> ELSE Head(ss) \o FlattenSeq(Tail(ss))

RECURSIVE JoinTokens(_, _)
\* Array.prototype.join on serialisations: the parts separated by sep.
JoinTokens(parts, sep) ==
    IF parts = <<>> THEN <<>>
    ELSE IF Len(parts) = 1 THEN parts[1]
    ELSE parts[1] \o <<sep>> \o JoinTokens(Tail(parts), sep)

\* Insert x into the sorted sequence s before the first element greater than
\* x, that is after every element not greater than x (Array.prototype.sort
\* is stable).
InsertSorted(x, s, Less(_, _)) ==
    LET greater == {i \in 1..Len(s) : Less(x, s[i])}
        p == IF greater = {} THEN Len(s) + 1
             ELSE CHOOSE i \in greater : \A j \in greater : i <= j
    IN SubSeq(s, 1, p - 1) \o <<x>> \o SubSeq(s, p, Len(s))

\* Array.prototype.sort with a comparator: a stable sort.
StableSort(s, Less(_, _)) ==
    LET sorted[n \in 0..Len(s)] ==
            IF n = 0 THEN <<>> ELSE InsertSorted(s[n], sorted[n - 1], Less)
    IN sorted[Len(s)]

\* the elements of s whose index satisfies Keep, in order
SelectIdx(s, Keep(_)) ==
    LET kept[n \in 0..Len(s)] ==
            IF n = 0 THEN <<>>
            ELSE IF Keep(n) THEN Append(kept[n - 1], s[n]) ELSE kept[n - 1]
    IN kept[Len(s)]

RECURSIVE DedupSeq(_)
\* Array.from(new Set(seq)): first occurrences, in order.
DedupSeq(s) ==
    IF s = <<>> THEN <<>>
    ELSE LET front == DedupSeq(SubSeq(s, 1, Len(s) - 1))
             x == s[Len(s)]
         IN IF x \in Range(front) THEN front ELSE Append(front, x)

-----------------------------------------------------------------------------
(* Collation.  The strings of the model in String.prototype.localeCompare  *)
(* order (ICU root collation: punctuation, then digits, then letters, case *)
(* a tertiary difference only).                                            *)

AtomOrder ==
    << "", " ", "_types_", "a", "a.json", "b", "b.json", "c", "Folder", "id", "Inner",
       "merged_udt_definitions", "Motor", "name", "Plant", "Pump",
       "ratedVoltage", "rpmMax", "tags", "tagType", "UdtType", "x", "y" >>

NumberOrder == << "1", "2", "480", "600" >>

Quote(s) == "\"" \o s \o "\""

\* The tokens of a serialisation in collation order: space _ , : " [ ] { }
\* 0-9 a-z.  A quoted string starts with ", so the quoted space and the
\* quoted "_types_" come before the quoted empty string.
TokenOrder ==
    << ",", ":", Quote(" "), Quote("_types_"), Quote("") >>
    \o MkSeq([i \in 1..(Len(AtomOrder) - 3) |-> Quote(AtomOrder[i + 3])])
    \o << "[", "]", "{", "}" >> \o NumberOrder \o << "false", "null", "true" >>

AtomRank(s) == CHOOSE i \in 1..Len(AtomOrder) : AtomOrder[i] = s
TokenRank(t) == CHOOSE i \in 1..Len(TokenOrder) : TokenOrder[i] = t

\* a.localeCompare(b) < 0 for two strings of the model
StrLess(a, b) == AtomRank(a) < AtomRank(b)

RECURSIVE SerialLess(_, _)
\* a.localeCompare(b) < 0 for two serialisations
SerialLess(a, b) ==
    IF b = <<>> THEN FALSE
    ELSE IF a = <<>> THEN TRUE
    ELSE IF Head(a) = Head(b) THEN SerialLess(Tail(a), Tail(b))
    ELSE TokenRank(Head(a)) < TokenRank(Head(b))

-----------------------------------------------------------------------------
(* JSON values (utils/udtSync.ts).                                         *)

Str(s) == <<"s", s>>
Num(n) == <<"n", n>>
Arr(items) == <<"a", items>>
Obj(entries) == <<"o", entries>>

isString(v) == v[1] = "s"
isArray(v) == v[1] = "a"
isJsonObject(v) == v[1] = "o"

Items(v) == v[2]
Entries(v) == v[2]
ObjectKeys(v) == MkSeq([i \in 1..Len(v[2]) |-> v[2][i][1]])
HasKey(v, k) == isJsonObject(v) /\ \E i \in 1..Len(v[2]) : v[2][i][1] = k
Get(v, k) == v[2][CHOOSE i \in 1..Len(v[2]) : v[2][i][1] = k][2]

\* Object identity.  An object or array that some holder keeps a reference
\* to carries a third component, <<owner, value>>: who holds it and what it
\* held when the reference was taken.  Obj and Arr build new nodes, which
\* carry none; an assignment or an in-place array method keeps the node it
\* acts on, and so its third component.
isNode(v) == isArray(v) \/ isJsonObject(v)
isHeld(v) == isNode(v) /\ Len(v) = 3

\* the node with its content replaced in place
InPlace(node, content) ==
    IF Len(node) = 3 THEN <<node[1], content, node[3]>> ELSE <<node[1], content>>

RECURSIVE Fresh(_)
\* JSON.parse(JSON.stringify(value)): the same value made of new nodes
Fresh(v) ==
    IF isArray(v) THEN Arr(MkSeq([i \in 1..Len(Items(v)) |-> Fresh(Items(v)[i])]))
    ELSE IF isJsonObject(v)
    THEN Obj(MkSeq([i \in 1..Len(Entries(v)) |-> <<Entries(v)[i][1], Fresh(Entries(v)[i][2])>>]))
    ELSE v

\* JSON.stringify of a primitive
PrimToken(v) == IF isString(v) THEN Quote(v[2]) ELSE v[2]

RECURSIVE JsonStringify(_)
\* JSON.stringify(value): entries in insertion order
JsonStringify(v) ==
    IF isArray(v) THEN
        <<"[">> \o JoinTokens(MkSeq([i \in 1..Len(Items(v)) |-> JsonStringify(Items(v)[i])]), ",")
        \o <<"]">>
    ELSE IF isJsonObject(v) THEN
        <<"{">> \o JoinTokens(MkSeq([i \in 1..Len(Entries(v)) |->
                       <<Quote(Entries(v)[i][1]), ":">> \o JsonStringify(Entries(v)[i][2])]), ",")
        \o <<"}">>
    ELSE <<PrimToken(v)>>

RECURSIVE canonicalizeJsonUnsortedArrays(_)
canonicalizeJsonUnsortedArrays(v) ==
    IF isArray(v) THEN
        <<"[">> \o JoinTokens(MkSeq([i \in 1..Len(Items(v)) |->
                       canonicalizeJsonUnsortedArrays(Items(v)[i])]), ",")
        \o <<"]">>
    ELSE IF isJsonObject(v) THEN
        LET keys == StableSort(ObjectKeys(v), StrLess)
        IN <<"{">> \o JoinTokens(MkSeq([i \in 1..Len(keys) |->
                          <<Quote(keys[i]), ":">>
                          \o canonicalizeJsonUnsortedArrays(Get(v, keys[i]))]), ",")
           \o <<"}">>
    ELSE <<PrimToken(v)>>

RECURSIVE canonicalizeJsonUnsortedKeys(_)
canonicalizeJsonUnsortedKeys(v) ==
    IF isArray(v) THEN
        <<"[">> \o JoinTokens(StableSort(MkSeq([i \in 1..Len(Items(v)) |->
                       canonicalizeJsonUnsortedKeys(Items(v)[i])]), SerialLess), ",")
        \o <<"]">>
    ELSE IF isJsonObject(v) THEN
        LET keys == ObjectKeys(v)
        IN <<"{">> \o JoinTokens(MkSeq([i \in 1..Len(keys) |->
                          <<Quote(keys[i]), ":">>
                          \o canonicalizeJsonUnsortedKeys(Get(v, keys[i]))]), ",")
           \o <<"}">>
    ELSE <<PrimToken(v)>>

RECURSIVE canonicalizeJson(_)
canonicalizeJson(v) ==
    IF isArray(v) THEN
        LET normalizedItems ==
                StableSort(MkSeq([i \in 1..Len(Items(v)) |-> canonicalizeJson(Items(v)[i])]),
                           SerialLess)
        IN <<"[">> \o JoinTokens(normalizedItems, ",") \o <<"]">>
    ELSE IF isJsonObject(v) THEN
        LET keys == StableSort(ObjectKeys(v), StrLess)
            serializedEntries ==
                MkSeq([i \in 1..Len(keys) |->
                    <<Quote(keys[i]), ":">> \o canonicalizeJson(Get(v, keys[i]))])
        IN <<"{">> \o JoinTokens(serializedEntries, ",") \o <<"}">>
    ELSE <<PrimToken(v)>>

\* a comparator that leaves the elements as they are
CanonLessKeepingOrder(a, b) == FALSE

CanonLess(a, b) == SerialLess(canonicalizeJson(a), canonicalizeJson(b))

RECURSIVE normalizeJsonForDisplay(_)
normalizeJsonForDisplay(v) ==
    IF isArray(v) THEN
        Arr(StableSort(MkSeq([i \in 1..Len(Items(v)) |-> normalizeJsonForDisplay(Items(v)[i])]),
                       CanonLess))
    ELSE IF isJsonObject(v) THEN
        LET keys == StableSort(ObjectKeys(v), StrLess)
        IN Obj(MkSeq([i \in 1..Len(keys) |-> <<keys[i], normalizeJsonForDisplay(Get(v, keys[i]))>>]))
    ELSE v

-----------------------------------------------------------------------------
(* Tree walker (utils/udtSync.ts).                                         *)

DEFAULT_MERGED_ROOT_NAME == "merged_udt_definitions"
SYNTHETIC_ROOT_SEGMENTS == {"_types_"}

\* String.prototype.toLowerCase on the strings of the model
ToLowerCase(s) == IF s = "_Types_" THEN "_types_" ELSE s

\* segment.trim().length === 0
IsBlank(s) == s \in {"", " "}

NoName == "<null>"

RECURSIVE JoinStr(_, _)
\* Array.prototype.join on strings
JoinStr(segs, sep) ==
    IF segs = <<>> THEN ""
    ELSE IF Len(segs) = 1 THEN segs[1]
    ELSE segs[1] \o sep \o JoinStr(Tail(segs), sep)

RECURSIVE SeqLess(_, _)
\* localeCompare of two joined lists of alphanumeric strings
SeqLess(a, b) ==
    IF b = <<>> THEN FALSE
    ELSE IF a = <<>> THEN TRUE
    ELSE IF Head(a) = Head(b) THEN SeqLess(Tail(a), Tail(b))
    ELSE StrLess(Head(a), Head(b))

\* the value itself is handed on, not a copy
cloneJsonObjectByReference(v) == v

cloneJsonObject(v) == Fresh(v)

isSyntheticRootSegment(segment) == ToLowerCase(segment) \in SYNTHETIC_ROOT_SEGMENTS

RECURSIVE DropSynthetic(_)
DropSynthetic(segs) ==
    IF segs # <<>> /\ isSyntheticRootSegment(Head(segs)) THEN DropSynthetic(Tail(segs))
    ELSE segs

normalizePathSegments(segments) ==
    DropSynthetic(SelectSeq(segments, LAMBDA seg : ~IsBlank(seg)))

normalizeRootName(value) ==
    IF value = NoName \/ value = "" THEN NoName
    ELSE IF IsBlank(value) \/ isSyntheticRootSegment(value) THEN NoName
    ELSE value

\* typeof node.name === "string" ? node.name : null
NodeName(node) ==
    IF HasKey(node, "name") /\ isString(Get(node, "name")) THEN Get(node, "name")[2]
    ELSE NoName

\* node.tagType === tag
TagTypeIs(node, tag) == HasKey(node, "tagType") /\ Get(node, "tagType") = Str(tag)

\* Array.isArray(node.tags) ? node.tags : []
TagsOf(node) ==
    IF HasKey(node, "tags") /\ isArray(Get(node, "tags")) THEN Items(Get(node, "tags"))
    ELSE <<>>

RECURSIVE collectUdtOccurrences(_, _, _)
\* the occurrences pushed to output, in walk order
collectUdtOccurrences(node, parentPath, sourceFile) ==
    IF ~isJsonObject(node) THEN <<>>
    ELSE
        LET nodeName == NodeName(node)
            truthy == nodeName # NoName /\ nodeName # ""
            currentPath == IF truthy THEN Append(parentPath, nodeName) ELSE parentPath
            pathSegments == normalizePathSegments(currentPath)
            here ==
                IF TagTypeIs(node, "UdtType") /\ truthy /\ pathSegments # <<>>
                THEN << [ name |-> nodeName,
                          path |-> JoinStr(pathSegments, "/"),
                          pathSegments |-> pathSegments,
                          parentPathSegments |-> SubSeq(pathSegments, 1, Len(pathSegments) - 1),
                          sourceFile |-> sourceFile,
                          definition |-> cloneJsonObject(node),
                          canonical |-> canonicalizeJson(node) ] >>
                ELSE <<>>
            tags == TagsOf(node)
            below == FlattenSeq([i \in 1..Len(tags) |->
                                    collectUdtOccurrences(tags[i], currentPath, sourceFile)])
        IN IF TagTypeIs(node, "UdtType") /\ truthy /\ pathSegments = <<>>
           THEN <<>>
           ELSE here \o below

\* throw new Error(message): the outcome of a call that threw
Thrown(message) == [error |-> message]
isThrown(outcome) == DOMAIN outcome = {"error"}

\* a file text that JSON.parse rejects; every other content is the document
\* JSON.parse returns for the text
MalformedText == <<"x", "{">>
JSONParseThrows(fileContent) == fileContent[1] = "x"

\* `Invalid JSON format in "${fileName}".`
InvalidJsonMessage(fileName) == "Invalid JSON format in \"" \o fileName \o "\"."

\* parseUdtFile: the ParsedUdtFile returned, or the error thrown
parseUdtFile(fileName, fileContent) ==
    IF JSONParseThrows(fileContent) THEN Thrown(InvalidJsonMessage(fileName))
    ELSE
        LET parsed == fileContent
        IN [ fileName |-> fileName,
             rootName |-> normalizeRootName(IF isJsonObject(parsed) THEN NodeName(parsed)
                                            ELSE NoName),
             udts |-> IF isArray(parsed)
                      THEN FlattenSeq([i \in 1..Len(Items(parsed)) |->
                                          collectUdtOccurrences(Items(parsed)[i], <<>>, fileName)])
                      ELSE collectUdtOccurrences(parsed, <<>>, fileName) ]

-----------------------------------------------------------------------------
(* Merged tree assembly (utils/udtSync.ts).                                *)

SetKey(obj, k, val) ==
    \* obj[k] = val on a JavaScript object
    IF HasKey(obj, k)
    THEN InPlace(obj, MkSeq([i \in 1..Len(Entries(obj)) |->
                          IF Entries(obj)[i][1] = k THEN <<k, val>> ELSE Entries(obj)[i]]))
    ELSE InPlace(obj, Append(Entries(obj), <<k, val>>))

\* getTagsArray(node) with its elements replaced in place by items
SetTags(node, items) ==
    IF HasKey(node, "tags") /\ isArray(Get(node, "tags"))
    THEN SetKey(node, "tags", InPlace(Get(node, "tags"), items))
    ELSE SetKey(node, "tags", Arr(items))

FolderNode(folderName, tags) ==
    Obj(<< <<"name", Str(folderName)>>, <<"tagType", Str("Folder")>>, <<"tags", Arr(tags)>> >>)

nodeNameForSort(node) ==
    IF isJsonObject(node) /\ NodeName(node) # NoName THEN NodeName(node) ELSE ""

nodeIsFolder(node) == isJsonObject(node) /\ TagTypeIs(node, "Folder")

\* the comparator of sortFolderTree: folders first, then by name
FolderTreeLess(left, right) ==
    IF nodeIsFolder(left) # nodeIsFolder(right) THEN nodeIsFolder(left)
    ELSE LET l == nodeNameForSort(left)
             r == nodeNameForSort(right)
         IN IF l = r THEN FALSE
            ELSE IF l = "" THEN TRUE
            ELSE IF r = "" THEN FALSE
            ELSE StrLess(l, r)

RECURSIVE sortFolderTree(_)
sortFolderTree(node) ==
    LET tags == TagsOf(node)
        sortedBelow == MkSeq([i \in 1..Len(tags) |->
                           IF nodeIsFolder(tags[i]) THEN sortFolderTree(tags[i]) ELSE tags[i]])
    IN SetTags(node, StableSort(sortedBelow, FolderTreeLess))

\* no child folder is ever reused
FolderChildIndexAlwaysCreates(parentNode, folderName) == 0

\* the index in the tags of parentNode of the folder ensureFolderChild
\* returns, 0 when it has to create one
FolderChildIndex(parentNode, folderName) ==
    LET tags == TagsOf(parentNode)
        found == {i \in 1..Len(tags) :
                     /\ isJsonObject(tags[i])
                     /\ TagTypeIs(tags[i], "Folder")
                     /\ HasKey(tags[i], "name")
                     /\ Get(tags[i], "name") = Str(folderName)}
    IN IF found = {} THEN 0 ELSE CHOOSE i \in found : \A j \in found : i <= j

RECURSIVE PlaceDefinition(_, _, _)
\* containerNode after walking/creating the folders of pathSegments below it
\* (ensureFolderChild) and pushing definition to the tags of the last one
PlaceDefinition(containerNode, pathSegments, definition) ==
    LET tags == TagsOf(containerNode)
    IN IF pathSegments = <<>>
       THEN SetTags(containerNode, Append(tags, cloneJsonObject(definition)))
       ELSE IF IsBlank(Head(pathSegments))
       THEN PlaceDefinition(containerNode, Tail(pathSegments), definition)
       ELSE LET idx == FolderChildIndex(containerNode, Head(pathSegments))
            IN IF idx = 0
               THEN SetTags(containerNode,
                        Append(tags,
                            PlaceDefinition(FolderNode(Head(pathSegments), <<>>),
                                            Tail(pathSegments), definition)))
               ELSE SetTags(containerNode,
                        MkSeq([i \in 1..Len(tags) |->
                                IF i = idx
                                THEN PlaceDefinition(tags[i], Tail(pathSegments), definition)
                                ELSE tags[i]]))

\* mergedByName is the sequence of <<name, definition>> entries of the Map;
\* udtParentPathsByName the sequence of <<name, path>> entries of the Record
LookupEntry(entries, k, default) ==
    IF \E i \in 1..Len(entries) : entries[i][1] = k
    THEN entries[CHOOSE i \in 1..Len(entries) : entries[i][1] = k][2]
    ELSE default

buildMergedUdtFile(mergedRootName, mergedByName, udtParentPathsByName) ==
    LET root == FolderNode(IF IsBlank(mergedRootName) THEN DEFAULT_MERGED_ROOT_NAME
                           ELSE mergedRootName, <<>>)
        sortedUdtNames == StableSort(MkSeq([i \in 1..Len(mergedByName) |-> mergedByName[i][1]]),
                                     StrLess)
        built[n \in 0..Len(sortedUdtNames)] ==
            IF n = 0 THEN root
            ELSE PlaceDefinition(built[n - 1],
                                 LookupEntry(udtParentPathsByName, sortedUdtNames[n], <<>>),
                                 LookupEntry(mergedByName, sortedUdtNames[n], NoName))
    IN sortFolderTree(built[Len(sortedUdtNames)])

relativeParentPathForRoot(parentPathSegments, mergedRootName) ==
    LET normalizedParentPathSegments == normalizePathSegments(parentPathSegments)
    IN IF normalizedParentPathSegments = <<>> THEN <<>>
       ELSE IF normalizedParentPathSegments[1] = mergedRootName
       THEN Tail(normalizedParentPathSegments)
       ELSE normalizedParentPathSegments

\* the candidate root is returned whenever it is not null
chooseMergedRootNameWithoutSharedCheck(parsedFiles) ==
    LET candidateRoot == normalizeRootName(parsedFiles[1].rootName)
    IN IF candidateRoot = NoName THEN DEFAULT_MERGED_ROOT_NAME
       ELSE candidateRoot

chooseMergedRootName(parsedFiles) ==
    LET candidateRoot == normalizeRootName(parsedFiles[1].rootName)
        referenceUdts == parsedFiles[1].udts
    IN IF candidateRoot = NoName THEN DEFAULT_MERGED_ROOT_NAME
       ELSE IF referenceUdts = <<>> THEN candidateRoot
       ELSE IF \A i \in 1..Len(referenceUdts) :
                   referenceUdts[i].pathSegments[1] = candidateRoot
       THEN candidateRoot
       ELSE DEFAULT_MERGED_ROOT_NAME

\* the comparator with the occurrence count first and the depth second
ParentPathLessCountFirst(left, right) ==
    IF right.count # left.count THEN left.count > right.count
    ELSE IF Len(right.pathSegments) # Len(left.pathSegments)
    THEN Len(left.pathSegments) > Len(right.pathSegments)
    ELSE IF left.hasReferenceOccurrence # right.hasReferenceOccurrence
    THEN left.hasReferenceOccurrence
    ELSE SeqLess(left.pathSegments, right.pathSegments)

\* the comparator of chooseMergedParentPath
ParentPathLess(left, right) ==
    IF Len(right.pathSegments) # Len(left.pathSegments)
    THEN Len(left.pathSegments) > Len(right.pathSegments)
    ELSE IF right.count # left.count THEN left.count > right.count
    ELSE IF left.hasReferenceOccurrence # right.hasReferenceOccurrence
    THEN left.hasReferenceOccurrence
    ELSE SeqLess(left.pathSegments, right.pathSegments)

chooseMergedParentPath(occurrences, referenceFile, mergedRootName) ==
    LET rel == MkSeq([i \in 1..Len(occurrences) |->
                   relativeParentPathForRoot(occurrences[i].parentPathSegments,
                                             mergedRootName)])
        key(i) == JoinStr(rel[i], "/")
        first == {i \in 1..Len(rel) : \A j \in 1..(i - 1) : key(j) # key(i)}
        firsts == SelectIdx(rel, LAMBDA i : i \in first)
        byPath == MkSeq([k \in 1..Len(firsts) |->
                     LET same == {i \in 1..Len(rel) : JoinStr(rel[i], "/") = JoinStr(firsts[k], "/")}
                     IN [ pathSegments |-> firsts[k],
                          count |-> Cardinality(same),
                          hasReferenceOccurrence |->
                              \E i \in same : occurrences[i].sourceFile = referenceFile ]])
    IN IF byPath = <<>> THEN <<>>
       ELSE StableSort(byPath, ParentPathLess)[1].pathSegments

-----------------------------------------------------------------------------
(* Difference classifier and reference-file merge (utils/udtSync.ts).      *)

\* the occurrences of all files, in file order then walk order
AllOccurrences(parsedFiles) ==
    FlattenSeq([i \in 1..Len(parsedFiles) |-> parsedFiles[i].udts])

\* udtsByName.get(name)
OccurrencesOf(parsedFiles, name) ==
    SelectSeq(AllOccurrences(parsedFiles), LAMBDA occ : occ.name = name)

\* the keys of udtsByName, in insertion order
UdtNames(parsedFiles) ==
    LET all == AllOccurrences(parsedFiles)
    IN DedupSeq([i \in 1..Len(all) |-> all[i].name])

\* the last occurrence wins
chosenDefinitionLastWins(parsedFiles, name) ==
    LET occurrences == OccurrencesOf(parsedFiles, name)
    IN occurrences[Len(occurrences)]

\* referenceByName.get(name) ?? occurrences[0]
chosenDefinition(parsedFiles, name) ==
    LET inReference == SelectSeq(parsedFiles[1].udts, LAMBDA occ : occ.name = name)
    IN IF inReference # <<>> THEN inReference[1] ELSE OccurrencesOf(parsedFiles, name)[1]

ExampleLess(a, b) == StrLess(a.sourceFile, b.sourceFile)
VariantLess(a, b) == SeqLess(a.files, b.files)

\* one entry of variantsByCanonical turned into a UdtVariant
BuildVariant(variantOccurrences) ==
    LET sourceFiles == MkSeq([i \in 1..Len(variantOccurrences) |-> variantOccurrences[i].sourceFile])
        firstPerFile ==
            SelectIdx(variantOccurrences,
                      LAMBDA i : \A j \in 1..(i - 1) : sourceFiles[j] # sourceFiles[i])
        sortedExamples == StableSort(firstPerFile, ExampleLess)
    IN [ files |-> StableSort(DedupSeq(sourceFiles), StrLess),
         examples |-> MkSeq([i \in 1..Len(sortedExamples) |->
                          [ fileName |-> sortedExamples[i].sourceFile,
                            path |-> sortedExamples[i].path,
                            definition |-> normalizeJsonForDisplay(
                                cloneJsonObject(sortedExamples[i].definition)) ]]) ]

\* the variants of one name: the occurrences grouped by canonical signature
VariantsOf(occurrences) ==
    LET canonicals == DedupSeq([i \in 1..Len(occurrences) |-> occurrences[i].canonical])
        variants == MkSeq([k \in 1..Len(canonicals) |->
                        BuildVariant(SelectSeq(occurrences,
                                               LAMBDA occ : occ.canonical = canonicals[k]))])
    IN StableSort(variants, VariantLess)

\* fileNames.filter((fileName) => !presentIn.has(fileName))
MissingIn(fileNames, occurrences) ==
    SelectSeq(fileNames,
              LAMBDA fileName : \A i \in 1..Len(occurrences) :
                                    occurrences[i].sourceFile # fileName)

DifferenceLess(a, b) == StrLess(a.name, b.name)
EntryLess(a, b) == StrLess(a[1], b[1])

NoDifference == [name |-> NoName, missingIn |-> <<>>, variants |-> <<>>]

AT_LEAST_ONE_FILE_MESSAGE == "At least one UDT file is required."

\* the body of syncUdtDefinitions after the check of files.length
SyncRun(parsedFiles) ==
    LET fileNames == MkSeq([i \in 1..Len(parsedFiles) |-> parsedFiles[i].fileName])
        referenceFile == parsedFiles[1].fileName
        mergedRootName == chooseMergedRootName(parsedFiles)
        names == UdtNames(parsedFiles)
        perName == MkSeq([i \in 1..Len(names) |->
                      LET occurrences == OccurrencesOf(parsedFiles, names[i])
                          missingIn == MissingIn(fileNames, occurrences)
                          variants == VariantsOf(occurrences)
                      IN [ difference |->
                               IF Len(missingIn) > 0 \/ Len(variants) > 1
                               THEN [name |-> names[i], missingIn |-> missingIn,
                                     variants |-> variants]
                               ELSE NoDifference,
                           merged |-> <<names[i],
                                        cloneJsonObject(
                                            chosenDefinition(parsedFiles, names[i]).definition)>>,
                           parentPath |-> <<names[i],
                                            chooseMergedParentPath(occurrences, referenceFile,
                                                                   mergedRootName)>> ]])
        mergedByName == MkSeq([i \in 1..Len(names) |-> perName[i].merged])
        udtParentPathsByName == MkSeq([i \in 1..Len(names) |-> perName[i].parentPath])
        differences ==
            StableSort(SelectSeq([i \in 1..Len(names) |-> perName[i].difference],
                                 LAMBDA d : d.name # NoName),
                       DifferenceLess)
        sortedMerged == StableSort(mergedByName, EntryLess)
    IN [ referenceFile |-> referenceFile,
         totalFiles |-> Len(parsedFiles),
         totalUniqueUdts |-> Len(names),
         udtsWithDefinitionDifferences |->
             Cardinality({i \in 1..Len(differences) : Len(differences[i].variants) > 1}),
         udtsMissingInSomeFiles |->
             Cardinality({i \in 1..Len(differences) : Len(differences[i].missingIn) > 0}),
         mergedRootName |-> mergedRootName,
         udtParentPathsByName |-> udtParentPathsByName,
         differences |-> differences,
         mergedUdts |-> MkSeq([i \in 1..Len(sortedMerged) |-> cloneJsonObject(sortedMerged[i][2])]),
         mergedFile |-> buildMergedUdtFile(mergedRootName, mergedByName, udtParentPathsByName) ]

\* an empty list yields a result with nothing in it
syncUdtDefinitionsEmptyResult(parsedFiles) ==
    IF Len(parsedFiles) = 0
    THEN [ referenceFile |-> NoName, totalFiles |-> 0, totalUniqueUdts |-> 0,
           udtsWithDefinitionDifferences |-> 0, udtsMissingInSomeFiles |-> 0,
           mergedRootName |-> DEFAULT_MERGED_ROOT_NAME, udtParentPathsByName |-> <<>>,
           differences |-> <<>>, mergedUdts |-> <<>>,
           mergedFile |-> buildMergedUdtFile(DEFAULT_MERGED_ROOT_NAME, <<>>, <<>>) ]
    ELSE SyncRun(parsedFiles)

\* syncUdtDefinitions: the UdtSyncResult returned, or the error thrown
syncUdtDefinitions(parsedFiles) ==
    IF Len(parsedFiles) = 0 THEN Thrown(AT_LEAST_ONE_FILE_MESSAGE)
    ELSE SyncRun(parsedFiles)

-----------------------------------------------------------------------------
(* Structural sub-differ (components/SyncUdtDefinitions.tsx).  Variants    *)
(* are numbered from 1 (the code numbers them from 0).  A relation added   *)
(* by addVariantRelation is a tuple <<kind, variant, path, otherVariant>>; *)
(* the lists mapToVariantPathDetails returns are kept as the set of these. *)

MISSING_JSON_VALUE == <<"missing", "missing">>

ARRAY_MATCH_KEYS == <<"name", "eventid", "eventId", "id", "key">>

\* `[${index}]`
IndexSegment(index) == "[" \o ToString(index) \o "]"

\* segment.startsWith("["): of the strings of the model, the index segments
StartsWithBracket(segment) == segment \in {"[0]", "[1]", "[2]", "[3]", "[4]"}

\* only the last segment
formatPathSegmentsLeafOnly(segments) ==
    IF segments = <<>> THEN "(root)" ELSE segments[Len(segments)]

formatPathSegments(segments) ==
    IF segments = <<>> THEN "(root)"
    ELSE LET label[n \in 0..Len(segments)] ==
                 IF n = 0 THEN ""
                 ELSE IF StartsWithBracket(segments[n]) THEN label[n - 1] \o segments[n]
                 ELSE IF label[n - 1] # "" THEN label[n - 1] \o "." \o segments[n]
                 ELSE segments[n]
         IN label[Len(segments)]

\* values compared by their type alone
comparableToCanonicalByType(value) ==
    IF value = MISSING_JSON_VALUE THEN <<"__missing__">> ELSE <<value[1]>>

\* comparableToCanonical
comparableToCanonical(value) ==
    IF value = MISSING_JSON_VALUE THEN <<"__missing__">> ELSE JsonStringify(value)

\* typeof item[key] === "string"
HasStringKey(item, key) == isJsonObject(item) /\ HasKey(item, key) /\ isString(Get(item, key))

\* candidateKey passes the checks of findArrayMatchKey on every array
MatchKeyIsValid(arrays, candidateKey) ==
    \A a \in 1..Len(arrays) :
        /\ \A i \in 1..Len(arrays[a]) : HasStringKey(arrays[a][i], candidateKey)
        /\ \A i, j \in 1..Len(arrays[a]) :
               i # j => Get(arrays[a][i], candidateKey) # Get(arrays[a][j], candidateKey)

NoMatchKey == "<null>"

\* arrays is a sequence of sequences of JSON values
findArrayMatchKey(arrays) ==
    LET valid == {c \in 1..Len(ARRAY_MATCH_KEYS) : MatchKeyIsValid(arrays, ARRAY_MATCH_KEYS[c])}
    IN IF valid = {} THEN NoMatchKey
       ELSE ARRAY_MATCH_KEYS[CHOOSE c \in valid : \A d \in valid : c <= d]

\* arrayValue is a sequence of JSON values
getArrayItemByKey(arrayValue, keyField, keyValue) ==
    LET hits == {i \in 1..Len(arrayValue) :
                    /\ isJsonObject(arrayValue[i])
                    /\ HasKey(arrayValue[i], keyField)
                    /\ Get(arrayValue[i], keyField) = Str(keyValue)}
    IN IF hits = {} THEN MISSING_JSON_VALUE
       ELSE arrayValue[CHOOSE i \in hits : \A j \in hits : i <= j]

Max(S) == CHOOSE x \in S : \A y \in S : y <= x

\* the recursive calls compareAtPath makes for values that are all objects or
\* all arrays where present, as pairs <<nextPathSegments, childValues>>
ChildComparisons(pathSegments, pathValues) ==
    LET presentVariantIndexes == {i \in 1..Len(pathValues) : pathValues[i] # MISSING_JSON_VALUE}
    IN IF \A i \in presentVariantIndexes : isJsonObject(pathValues[i])
       THEN LET keys == UNION {Range(ObjectKeys(pathValues[i])) : i \in presentVariantIndexes}
            IN {<< IF key = "tags" THEN pathSegments ELSE Append(pathSegments, key),
                   MkSeq([i \in 1..Len(pathValues) |->
                       IF ~isJsonObject(pathValues[i]) \/ ~HasKey(pathValues[i], key)
                       THEN MISSING_JSON_VALUE
                       ELSE Get(pathValues[i], key)]) >> : key \in keys}
       ELSE LET presentArrays == SelectIdx(MkSeq([i \in 1..Len(pathValues) |-> pathValues[i][2]]),
                                           LAMBDA i : i \in presentVariantIndexes)
                arrayMatchKey == findArrayMatchKey(presentArrays)
            IN IF arrayMatchKey # NoMatchKey
               THEN LET keyValues == UNION {{Get(presentArrays[a][i], arrayMatchKey)[2] :
                                               i \in 1..Len(presentArrays[a])} :
                                            a \in 1..Len(presentArrays)}
                    IN {<< Append(pathSegments,
                                  IF arrayMatchKey = "name" THEN keyValue
                                  ELSE arrayMatchKey \o "=" \o keyValue),
                           MkSeq([i \in 1..Len(pathValues) |->
                               IF ~isArray(pathValues[i]) THEN MISSING_JSON_VALUE
                               ELSE getArrayItemByKey(Items(pathValues[i]),
                                                      arrayMatchKey, keyValue)]) >> :
                        keyValue \in keyValues}
               ELSE LET maxLength == Max({Len(presentArrays[a]) : a \in 1..Len(presentArrays)})
                    IN {<< Append(pathSegments, IndexSegment(index)),
                           MkSeq([i \in 1..Len(pathValues) |->
                               IF ~isArray(pathValues[i]) \/ index >= Len(Items(pathValues[i]))
                               THEN MISSING_JSON_VALUE
                               ELSE Items(pathValues[i])[index + 1]]) >> :
                        index \in 0..(maxLength - 1)}

RECURSIVE compareAtPath(_, _)
\* the relations compareAtPath adds for this path and below
compareAtPath(pathSegments, pathValues) ==
    LET all == 1..Len(pathValues)
        presentVariantIndexes == {i \in all : pathValues[i] # MISSING_JSON_VALUE}
        missingVariantIndexes == all \ presentVariantIndexes
        pathLabel == formatPathSegments(pathSegments)
    IN IF Len(pathSegments) > 0 /\ missingVariantIndexes # {} /\ presentVariantIndexes # {}
       THEN IF pathLabel = "" THEN {}
            ELSE {<<"missing", m, pathLabel, q>> :
                      m \in missingVariantIndexes, q \in presentVariantIndexes}
       ELSE IF presentVariantIndexes = {} THEN {}
       ELSE IF \/ \A i \in presentVariantIndexes : isJsonObject(pathValues[i])
               \/ \A i \in presentVariantIndexes : isArray(pathValues[i])
       THEN UNION {compareAtPath(child[1], child[2]) :
                      child \in ChildComparisons(pathSegments, pathValues)}
       ELSE IF Len(pathSegments) = 0 \/ pathLabel = "" THEN {}
       ELSE {<<"unequal", i, pathLabel, j>> :
                <<i, j>> \in {p \in presentVariantIndexes \X presentVariantIndexes :
                                 /\ p[1] # p[2]
                                 /\ comparableToCanonical(pathValues[p[1]])
                                        # comparableToCanonical(pathValues[p[2]])}}

\* the root path label: the most frequent name among the values
rootPathSegments(values) ==
    LET named == {i \in 1..Len(values) : NodeName(values[i]) # NoName}
        names == {NodeName(values[i]) : i \in named}
        count(n) == Cardinality({i \in named : NodeName(values[i]) = n})
        better(a, b) == IF count(a) # count(b) THEN count(a) > count(b) ELSE StrLess(a, b)
    IN IF names = {} THEN <<>>
       ELSE <<CHOOSE a \in names : \A b \in names \ {a} : better(a, b)>>

\* the relations of all variants
analyzeVariantDifferences(values) == compareAtPath(rootPathSegments(values), values)

\* variantDifferenceDetails[variant].missingProperties as a set of <<path, otherVariant>>
missingProperties(details, variant) ==
    {<<r[3], r[4]>> : r \in {q \in details : q[1] = "missing" /\ q[2] = variant}}

\* variantDifferenceDetails[variant].unequalValues as a set of <<path, otherVariant>>
unequalValues(details, variant) ==
    {<<r[3], r[4]>> : r \in {q \in details : q[1] = "unequal" /\ q[2] = variant}}

EmptyObject == Obj(<<>>)

inspectDifference(difference) ==
    LET normalizedVariantDefinitions ==
            MkSeq([i \in 1..Len(difference.variants) |->
                normalizeJsonForDisplay(
                    IF difference.variants[i].examples # <<>>
                    THEN difference.variants[i].examples[1].definition
                    ELSE EmptyObject)])
        variantDifferenceDetails ==
            IF Len(difference.variants) > 1
            THEN analyzeVariantDifferences(normalizedVariantDefinitions)
            ELSE {}
        \* one list entry per variant and path
        missingPropertyCount ==
            Cardinality({<<r[2], r[3]>> : r \in {q \in variantDifferenceDetails : q[1] = "missing"}})
        unequalValueCount ==
            Cardinality({<<r[2], r[3]>> : r \in {q \in variantDifferenceDetails : q[1] = "unequal"}})
    IN [ normalizedVariantDefinitions |-> normalizedVariantDefinitions,
         variantDifferenceDetails |-> variantDifferenceDetails,
         missingPropertyCount |-> missingPropertyCount,
         unequalValueCount |-> unequalValueCount,
         isMissingOnlyDefinitionDifference |->
             /\ Len(difference.variants) > 1
             /\ missingPropertyCount > 0
             /\ unequalValueCount = 0 ]

-----------------------------------------------------------------------------
(* Union merge (components/SyncUdtDefinitions.tsx).                        *)

JsonNull == Num("null")

deepCloneJsonObject(v) == Fresh(v)

\* the comparator of the whole-element fallback: by JSON.stringify text
StringifyEntryLess(a, b) == SerialLess(a[1], b[1])

RECURSIVE mergeJsonValuesByUnion(_)
\* values is a sequence of JSON values
mergeJsonValuesByUnion(values) ==
    IF values = <<>> THEN JsonNull
    ELSE IF \A i \in 1..Len(values) : isJsonObject(values[i])
    THEN LET keys == StableSort(DedupSeq(FlattenSeq(MkSeq([i \in 1..Len(values) |->
                                                       ObjectKeys(values[i])]))),
                                StrLess)
         IN Obj(MkSeq([k \in 1..Len(keys) |->
                    LET withKey == SelectSeq(values, LAMBDA objectValue : HasKey(objectValue, keys[k]))
                    IN <<keys[k],
                         mergeJsonValuesByUnion(MkSeq([i \in 1..Len(withKey) |->
                                                    Get(withKey[i], keys[k])]))>>]))
    ELSE IF \A i \in 1..Len(values) : isArray(values[i])
    THEN LET arrayValues == MkSeq([i \in 1..Len(values) |-> Items(values[i])])
             arrayMatchKey == findArrayMatchKey(arrayValues)
             allItems == FlattenSeq(arrayValues)
         IN IF arrayMatchKey # NoMatchKey
            THEN LET keyValues ==
                         StableSort(DedupSeq(MkSeq([i \in 1..Len(allItems) |->
                                                 Get(allItems[i], arrayMatchKey)[2]])),
                                    StrLess)
                 IN Arr(MkSeq([k \in 1..Len(keyValues) |->
                            LET found == MkSeq([i \in 1..Len(arrayValues) |->
                                             getArrayItemByKey(arrayValues[i], arrayMatchKey,
                                                               keyValues[k])])
                            IN mergeJsonValuesByUnion(
                                   SelectSeq(found, LAMBDA v : v # MISSING_JSON_VALUE))]))
            ELSE LET uniqueItems ==
                         SelectIdx(MkSeq([i \in 1..Len(allItems) |->
                                       <<JsonStringify(allItems[i]), allItems[i]>>]),
                                   LAMBDA i : \A j \in 1..(i - 1) :
                                       JsonStringify(allItems[j]) # JsonStringify(allItems[i]))
                     sorted == StableSort(uniqueItems, StringifyEntryLess)
                 IN Arr(MkSeq([i \in 1..Len(sorted) |-> sorted[i][2]]))
    ELSE values[1]

\* <<>> stands for null
buildUnionMergedDefinition(difference) ==
    LET definitions ==
            FlattenSeq(MkSeq([i \in 1..Len(difference.variants) |->
                MkSeq([k \in 1..Len(difference.variants[i].examples) |->
                    difference.variants[i].examples[k].definition])]))
    IN IF definitions = <<>> THEN <<>>
       ELSE LET merged == mergeJsonValuesByUnion(definitions)
            IN IF ~isJsonObject(merged) THEN <<>> ELSE <<merged>>

\* Map.prototype.set on the sequence of entries of a Map
MapSet(entries, k, val) ==
    IF \E i \in 1..Len(entries) : entries[i][1] = k
    THEN MkSeq([i \in 1..Len(entries) |-> IF entries[i][1] = k THEN <<k, val>> ELSE entries[i]])
    ELSE Append(entries, <<k, val>>)

\* the union replaces the definition of every selected difference, eligible
\* or not
mergedByNameForDownloadTrustingSelection(result, selections) ==
    LET named == SelectSeq(result.mergedUdts,
                           LAMBDA definition : NodeName(definition) \notin {NoName, ""})
        initial[n \in 0..Len(named)] ==
            IF n = 0 THEN <<>>
            ELSE MapSet(initial[n - 1], NodeName(named[n]), deepCloneJsonObject(named[n]))
        withUnions[n \in 0..Len(result.differences)] ==
            IF n = 0 THEN initial[Len(named)]
            ELSE LET difference == result.differences[n]
                     before == withUnions[n - 1]
                 IN IF difference.name \notin selections THEN before
                    ELSE LET unionDefinition == buildUnionMergedDefinition(difference)
                         IN IF unionDefinition = <<>> \/ NodeName(unionDefinition[1]) = NoName
                            THEN before
                            ELSE MapSet(before, NodeName(unionDefinition[1]),
                                        deepCloneJsonObject(unionDefinition[1]))
    IN withUnions[Len(result.differences)]

\* the entries of mergedByName that the useMemo of mergedFileForDownload
\* passes to buildMergedUdtFile
mergedByNameForDownload(result, selections) ==
    LET named == SelectSeq(result.mergedUdts,
                           LAMBDA definition : NodeName(definition) \notin {NoName, ""})
        initial[n \in 0..Len(named)] ==
            IF n = 0 THEN <<>>
            ELSE MapSet(initial[n - 1], NodeName(named[n]), deepCloneJsonObject(named[n]))
        withUnions[n \in 0..Len(result.differences)] ==
            IF n = 0 THEN initial[Len(named)]
            ELSE LET difference == result.differences[n]
                     before == withUnions[n - 1]
                 IN IF difference.name \notin selections THEN before
                    ELSE IF ~inspectDifference(difference).isMissingOnlyDefinitionDifference
                    THEN before
                    ELSE LET unionDefinition == buildUnionMergedDefinition(difference)
                         IN IF unionDefinition = <<>> \/ NodeName(unionDefinition[1]) = NoName
                            THEN before
                            ELSE MapSet(before, NodeName(unionDefinition[1]),
                                        deepCloneJsonObject(unionDefinition[1]))
    IN withUnions[Len(result.differences)]

\* the useMemo of mergedFileForDownload, for a non-null syncResult
mergedFileForDownload(result, selections) ==
    buildMergedUdtFile(result.mergedRootName,
                       mergedByNameForDownload(result, selections),
                       result.udtParentPathsByName)

-----------------------------------------------------------------------------
(* The canonicaliser on its own: every JSON value of at most MaxNodes      *)
(* nodes over two keys and two primitives, reordered and normalised.       *)

MaxNodes == 4

HarnessKeys == {"a", "b"}
HarnessPrimitives == {Num("1"), Str("x")}

\* the sequences of distinct keys
KeySeqs ==
    {<<>>} \cup {<<k>> : k \in HarnessKeys}
    \cup {p \in HarnessKeys \X HarnessKeys : p[1] # p[2]}

RECURSIVE ValuesOfSize(_)
RECURSIVE SeqsOfSize(_)
\* the sequences of JSON values whose node counts add up to n
SeqsOfSize(n) ==
    IF n = 0 THEN {<<>>}
    ELSE UNION {{<<v>> \o rest : v \in ValuesOfSize(k), rest \in SeqsOfSize(n - k)} :
                k \in 1..n}

\* the JSON values of exactly n nodes
ValuesOfSize(n) ==
    IF n < 1 THEN {}
    ELSE (IF n = 1 THEN HarnessPrimitives ELSE {})
         \cup {Arr(items) : items \in SeqsOfSize(n - 1)}
         \cup {Obj(MkSeq([i \in 1..Len(ks) |-> <<ks[i], vs[i]>>])) :
                 <<ks, vs>> \in {p \in KeySeqs \X SeqsOfSize(n - 1) : Len(p[1]) = Len(p[2])}}

HarnessValues == UNION {ValuesOfSize(n) : n \in 1..MaxNodes}

\* the orderings of a sequence
Orderings(s) ==
    {MkSeq([i \in 1..Len(s) |-> s[f[i]]]) :
        f \in {g \in [1..Len(s) -> 1..Len(s)] : \A i, j \in 1..Len(s) : i # j => g[i] # g[j]}}

RECURSIVE Reorderings(_)
RECURSIVE ReorderingsOfEach(_)
\* the sequences obtained by reordering each element of s inside
ReorderingsOfEach(s) ==
    IF s = <<>> THEN {<<>>}
    ELSE {<<h>> \o t : h \in Reorderings(Head(s)), t \in ReorderingsOfEach(Tail(s))}

ReorderingsOfEntries(s) ==
    {MkSeq([i \in 1..Len(s) |-> <<s[i][1], vs[i]>>]) :
        vs \in ReorderingsOfEach(MkSeq([i \in 1..Len(s) |-> s[i][2]]))}

\* the values obtained from v by permuting the keys of any object and the
\* elements of any array, at any depth
Reorderings(v) ==
    IF isArray(v) THEN
        UNION {{Arr(o) : o \in Orderings(items)} : items \in ReorderingsOfEach(Items(v))}
    ELSE IF isJsonObject(v) THEN
        UNION {{Obj(o) : o \in Orderings(es)} : es \in ReorderingsOfEntries(Entries(v))}
    ELSE {v}

NoValue == <<"none", "none">>
Null == <<>>

\* the view before any upload
IdleView ==
    /\ files = <<>>
    /\ syncResult = Null
    /\ unionMergeSelections = {}
    /\ errorMessage = ""
    /\ syncRuns = <<>>

\* the canonicaliser harness not in use
IdleCanon ==
    /\ jv = NoValue
    /\ jprev = NoValue
    /\ jlast = "input"

\* the library caller not in use
IdleLib ==
    /\ parsedList = <<>>
    /\ libOutcome = Null
    /\ libLast = "none"
    /\ libInput = Null

\* the Sync Translation view before any upload
IdleTranslation ==
    /\ trFiles = <<>>
    /\ mergedTerms = <<>>
    /\ conflicts = <<>>
    /\ selectedConflictValues = {}
    /\ mergeRuns = <<>>

\* the Translation Cleaner view before any upload
IdleCleaner ==
    /\ translationFile = Null
    /\ translationTerms = <<>>
    /\ projectZipFiles = <<>>
    /\ analysis = Null
    /\ isAnalyzing = FALSE
    /\ cleanerError = ""
    /\ analysisRun = Null
    /\ cleanedExport = Null

InitCanon ==
    /\ jv \in HarnessValues
    /\ jprev = NoValue
    /\ jlast = "input"
    /\ IdleView
    /\ IdleLib
    /\ IdleTranslation
    /\ IdleCleaner

\* reorder keys and elements of the current value
Permute ==
    /\ \E w \in Reorderings(jv) \ {jv} : jv' = w
    /\ jprev' = jv
    /\ jlast' = "permute"
    /\ UNCHANGED <<viewVars, libVars, trVars, tcVars>>

\* normalizeJsonForDisplay applied to the current value
Normalize ==
    /\ jv' = normalizeJsonForDisplay(jv)
    /\ jprev' = jv
    /\ jlast' = "normalize"
    /\ UNCHANGED <<viewVars, libVars, trVars, tcVars>>

NextCanon == Permute \/ Normalize

SpecCanon == InitCanon /\ [][NextCanon]_vars

\* C7: for every JSON value v, canonicalizeJson(normalizeJsonForDisplay(v))
\* equals canonicalizeJson(v).
C7_NormalizeKeepsCanonical ==
    jlast = "normalize" => canonicalizeJson(jv) = canonicalizeJson(jprev)

\* a nested value whose normalisation reordered it
C7_Witness ==
    /\ jlast = "normalize"
    /\ jv # jprev
    /\ \E i \in 1..Len(jprev[2]) :
          IF isArray(jprev) THEN jprev[2][i][1] \in {"a", "o"}
          ELSE jprev[2][i][2][1] \in {"a", "o"}

\* C8: permuting the key insertion order of any object or the element order
\* of any array, at any depth, leaves the canonicalizeJson output unchanged.
C8_CanonicalIgnoresOrder ==
    jlast = "permute" => canonicalizeJson(jv) = canonicalizeJson(jprev)

\* a reordering below the top level
C8_Witness ==
    /\ jlast = "permute"
    /\ jv[1] = jprev[1]
    /\ Len(jv[2]) = 1
    /\ jv # jprev
    /\ JsonStringify(jv) # JsonStringify(jprev)

-----------------------------------------------------------------------------
(* The Sync UDT Definitions view (components/SyncUdtDefinitions.tsx).      *)

MaxFiles == 2
MaxSyncRuns == 1

Udt(udtName, props) ==
    Obj(<< <<"name", Str(udtName)>>, <<"tagType", Str("UdtType")>> >> \o props)

MotorFull == Udt("Motor", << <<"rpmMax", Num("1")>>, <<"ratedVoltage", Num("480")>> >>)
MotorNoRpm == Udt("Motor", << <<"ratedVoltage", Num("480")>> >>)
Motor600 == Udt("Motor", << <<"ratedVoltage", Num("600")>>, <<"rpmMax", Num("1")>> >>)
MotorRpm2 == Udt("Motor", << <<"rpmMax", Num("2")>>, <<"ratedVoltage", Num("480")>> >>)
MotorDup == Udt("Motor", << <<"rpmMax", Num("1")>>, <<"ratedVoltage", Num("480")>>,
                            <<"x", Arr(<<Num("1"), Num("1")>>)>> >>)
PumpNested == Udt("Pump", << <<"tags", Arr(<<MotorFull>>)>> >>)
\* a definition with a folder of members in it, y before x
PumpInner ==
    Udt("Pump", << <<"tags", Arr(<<FolderNode("Inner", << Obj(<< <<"name", Str("y")>> >>),
                                                          Obj(<< <<"name", Str("x")>> >>) >>)>>)>> >>)

\* the documents a file may hold (its parsed content)
Docs ==
    { FolderNode("_types_", <<MotorFull>>),
      FolderNode("_types_", <<MotorNoRpm>>),
      FolderNode("_types_", <<Motor600>>),
      FolderNode("_types_", <<MotorDup>>),
      FolderNode("Plant", <<FolderNode("x", <<MotorFull>>), FolderNode("y", <<MotorRpm2>>)>>),
      FolderNode("Plant", <<PumpNested>>),
      FolderNode("Plant", <<PumpInner>>),
      Arr(<<Udt("Pump", <<>>)>>),
      FolderNode("Plant", <<>>),
      MalformedText }

FileNames == {"a.json", "b.json"}
\* File.size: the length of the text of the document
DocSize(doc) == Len(JsonStringify(doc))

\* the File objects the user may pick
FileChoices == {[name |-> n, size |-> DocSize(d), content |-> d] : n \in FileNames, d \in Docs}

Init ==
    /\ IdleView
    /\ IdleCanon
    /\ IdleLib
    /\ IdleTranslation
    /\ IdleCleaner

\* resetOutput
resetOutput ==
    /\ syncResult' = Null
    /\ errorMessage' = ""
    /\ unionMergeSelections' = {}

\* handleFileChange with one new file in the event
handleFileChange(newFile) ==
    /\ Len(files) < MaxFiles
    /\ LET alreadyAdded == \E i \in 1..Len(files) :
                               files[i].name = newFile.name /\ files[i].size = newFile.size
       IN files' = IF alreadyAdded THEN files ELSE Append(files, newFile)
    /\ resetOutput
    /\ UNCHANGED <<syncRuns, canonVars, libVars, trVars, tcVars>>

\* the onClick of a file's "Remove file" button
removeFile(index) ==
    /\ index \in 1..Len(files)
    /\ files' = SelectIdx(files, LAMBDA i : i # index)
    /\ resetOutput
    /\ UNCHANGED <<syncRuns, canonVars, libVars, trVars, tcVars>>

\* a file that does not parse is left out of parsedFiles
ParsedFilesSkippingInvalid(fs) ==
    LET valid == SelectSeq(fs, LAMBDA f : ~JSONParseThrows(f.content))
    IN MkSeq([i \in 1..Len(valid) |-> parseUdtFile(valid[i].name, valid[i].content)])

\* parseUdtFile(file.name, content) for each file, in order
ParsedFiles(fs) == MkSeq([i \in 1..Len(fs) |-> parseUdtFile(fs[i].name, fs[i].content)])

NO_UDTS_MESSAGE ==
    "No UDT definitions were found. Make sure the files are Ignition UDT definition exports."

\* the index of the first file whose parseUdtFile throws, 0 when none does
FirstThrowing(outcomes) ==
    LET throwing == {i \in 1..Len(outcomes) : isThrown(outcomes[i])}
    IN IF throwing = {} THEN 0 ELSE CHOOSE i \in throwing : \A j \in throwing : i <= j

\* handleSyncUdts without the check of foundUdts
handleSyncUdtsWithoutFoundCheck ==
    /\ Len(files) > 0
    /\ unionMergeSelections' = {}
    /\ LET parsedFiles == ParsedFiles(files)
           failed == FirstThrowing(parsedFiles)
       IN IF failed # 0
          THEN /\ errorMessage' = parsedFiles[failed].error
               /\ syncResult' = Null
          ELSE /\ errorMessage' = ""
               /\ syncResult' = <<syncUdtDefinitions(parsedFiles)>>
    /\ UNCHANGED <<files, syncRuns, canonVars, libVars, trVars, tcVars>>

\* handleSyncUdts
handleSyncUdts ==
    /\ Len(files) > 0
    /\ unionMergeSelections' = {}
    /\ LET parsedFiles == ParsedFiles(files)
           failed == FirstThrowing(parsedFiles)
           foundUdts == Len(AllOccurrences(parsedFiles))
       IN IF failed # 0
          THEN /\ errorMessage' = parsedFiles[failed].error
               /\ syncResult' = Null
          ELSE IF foundUdts = 0
          THEN /\ errorMessage' = NO_UDTS_MESSAGE
               /\ syncResult' = Null
          ELSE /\ errorMessage' = ""
               /\ syncResult' = <<syncUdtDefinitions(parsedFiles)>>
    /\ UNCHANGED <<files, syncRuns, canonVars, libVars, trVars, tcVars>>

\* toggleUnionMergeSelection, called from the switch of a listed difference
toggleUnionMergeSelection(differenceName, enabled) ==
    /\ syncResult # Null
    /\ \E i \in 1..Len(syncResult[1].differences) :
           syncResult[1].differences[i].name = differenceName
    /\ unionMergeSelections' = IF enabled THEN unionMergeSelections \cup {differenceName}
                               ELSE unionMergeSelections \ {differenceName}
    /\ UNCHANGED <<files, syncResult, errorMessage, syncRuns, canonVars, libVars, trVars, tcVars>>

Next ==
    \/ \E newFile \in FileChoices : handleFileChange(newFile)
    \/ \E index \in 1..MaxFiles : removeFile(index)
    \/ handleSyncUdts
    \/ \E differenceName \in {"Motor", "Pump"}, enabled \in BOOLEAN :
           toggleUnionMergeSelection(differenceName, enabled)

Spec == Init /\ [][Next]_vars

\* handleSyncUdts up to its first await: the call holds the files it was made with
handleSyncUdtsCalled ==
    /\ Len(files) > 0
    /\ Len(syncRuns) < MaxSyncRuns
    /\ errorMessage' = ""
    /\ syncResult' = Null
    /\ unionMergeSelections' = {}
    /\ syncRuns' = Append(syncRuns, files)
    /\ UNCHANGED <<files, canonVars, libVars, trVars, tcVars>>

\* handleSyncUdts after its awaits, for the call at position run
handleSyncUdtsResumed(run) ==
    /\ run \in 1..Len(syncRuns)
    /\ LET parsedFiles == ParsedFiles(syncRuns[run])
           failed == FirstThrowing(parsedFiles)
           foundUdts == Len(AllOccurrences(parsedFiles))
       IN IF failed # 0
          THEN /\ errorMessage' = parsedFiles[failed].error
               /\ UNCHANGED syncResult
          ELSE IF foundUdts = 0
          THEN /\ errorMessage' = NO_UDTS_MESSAGE
               /\ UNCHANGED syncResult
          ELSE /\ syncResult' = <<syncUdtDefinitions(parsedFiles)>>
               /\ UNCHANGED errorMessage
    /\ syncRuns' = SelectIdx(syncRuns, LAMBDA i : i # run)
    /\ UNCHANGED <<files, unionMergeSelections, canonVars, libVars, trVars, tcVars>>

\* the files picked while a run is followed through its awaits
AwaitFileChoices ==
    { [name |-> "a.json", size |-> DocSize(FolderNode("_types_", <<MotorFull>>)),
       content |-> FolderNode("_types_", <<MotorFull>>)],
      [name |-> "b.json", size |-> DocSize(FolderNode("_types_", <<MotorNoRpm>>)),
       content |-> FolderNode("_types_", <<MotorNoRpm>>)],
      [name |-> "b.json", size |-> DocSize(FolderNode("Plant", <<>>)),
       content |-> FolderNode("Plant", <<>>)],
      [name |-> "a.json", size |-> DocSize(MalformedText), content |-> MalformedText] }

NextAwait ==
    \/ \E newFile \in AwaitFileChoices : handleFileChange(newFile)
    \/ \E index \in 1..MaxFiles : removeFile(index)
    \/ handleSyncUdtsCalled
    \/ \E run \in 1..MaxSyncRuns : handleSyncUdtsResumed(run)
    \/ \E differenceName \in {"Motor", "Pump"}, enabled \in BOOLEAN :
           toggleUnionMergeSelection(differenceName, enabled)

SpecAwait == Init /\ [][NextAwait]_vars


-----------------------------------------------------------------------------
(* A caller of the exported functions of utils/udtSync.ts: it parses file  *)
(* texts one by one with parseUdtFile, keeps the ParsedUdtFile values that  *)
(* were returned, and passes the list it has to syncUdtDefinitions.         *)

InitLib ==
    /\ parsedList = <<>>
    /\ libOutcome = Null
    /\ libLast = "none"
    /\ libInput = Null
    /\ IdleView
    /\ IdleCanon
    /\ IdleTranslation
    /\ IdleCleaner

\* parseUdtFile(fileName, fileContent); a returned value is pushed to the list
LibParse(fileName, fileContent) ==
    /\ Len(parsedList) < MaxFiles
    /\ LET outcome == parseUdtFile(fileName, fileContent)
       IN /\ libOutcome' = <<outcome>>
          /\ parsedList' = IF isThrown(outcome) THEN parsedList
                           ELSE Append(parsedList, outcome)
    /\ libLast' = "parseUdtFile"
    /\ libInput' = <<fileName, fileContent>>
    /\ UNCHANGED <<viewVars, canonVars, trVars, tcVars>>

\* syncUdtDefinitions(parsedList)
LibSync ==
    /\ libOutcome' = <<syncUdtDefinitions(parsedList)>>
    /\ libLast' = "syncUdtDefinitions"
    /\ libInput' = <<parsedList>>
    /\ UNCHANGED <<parsedList, viewVars, canonVars, trVars, tcVars>>

NextLib ==
    \/ \E fileName \in FileNames, fileContent \in Docs : LibParse(fileName, fileContent)
    \/ LibSync

SpecLib == InitLib /\ [][NextLib]_vars

-----------------------------------------------------------------------------
(* The walker on its own: parseUdtFile applied to every document of at     *)
(* most MaxWalkNodes nodes, whose nodes have no name, a name that is not a  *)
(* string, or one of a few string names, and tagType "UdtType" or "Folder". *)

MaxWalkNodes == 2

NoNameKey == <<"absent", "absent">>
WalkNames == {NoNameKey, Num("1"), Str(""), Str(" "), Str("_types_"), Str("Motor")}
WalkTagTypes == {"UdtType", "Folder"}

WalkNode(nodeName, tagType, children) ==
    Obj((IF nodeName = NoNameKey THEN <<>> ELSE << <<"name", nodeName>> >>)
        \o << <<"tagType", Str(tagType)>> >>
        \o (IF children = <<>> THEN <<>> ELSE << <<"tags", Arr(children)>> >>))

RECURSIVE WalkTrees(_)
RECURSIVE WalkForests(_)
\* the trees of n nodes
WalkTrees(n) ==
    {WalkNode(nodeName, tagType, children) :
        nodeName \in WalkNames, tagType \in WalkTagTypes, children \in WalkForests(n - 1)}

\* the sequences of trees of n nodes in all
WalkForests(n) ==
    IF n = 0 THEN {<<>>}
    ELSE UNION {{<<t>> \o rest : t \in WalkTrees(k), rest \in WalkForests(n - k)} : k \in 1..n}

\* a document is one tree, or an array of trees
WalkDocs ==
    UNION {WalkTrees(n) \cup {Arr(forest) : forest \in WalkForests(n)} : n \in 1..MaxWalkNodes}

InitWalk ==
    /\ libInput \in {<<"a.json", document>> : document \in WalkDocs}
    /\ parsedList = <<>>
    /\ libOutcome = Null
    /\ libLast = "none"
    /\ IdleView
    /\ IdleCanon
    /\ IdleTranslation
    /\ IdleCleaner

\* parseUdtFile on the file drawn
WalkParse ==
    /\ libLast = "none"
    /\ LibParse(libInput[1], libInput[2])

NextWalk == WalkParse

SpecWalk == InitWalk /\ [][NextWalk]_vars

-----------------------------------------------------------------------------
(* chooseMergedParentPath on its own: applied to every list of at most     *)
(* MaxPathOccurrences occurrences with a parent path and a source file.     *)

MaxPathOccurrences == 3

PathParents ==
    { <<>>, <<"Plant">>, <<"x">>, <<"y">>, <<"Plant", "x">>, <<"Plant", "y">> }

\* the fields of a UdtOccurrence that chooseMergedParentPath reads
PathOccurrences ==
    {[parentPathSegments |-> p, sourceFile |-> f] : p \in PathParents, f \in FileNames}

PathOccurrenceLists ==
    UNION {[1..n -> PathOccurrences] : n \in 0..MaxPathOccurrences}

InitPath ==
    /\ libInput \in {<<MkSeq(occurrences), "a.json", mergedRootName>> :
                         occurrences \in PathOccurrenceLists,
                         mergedRootName \in {"Plant", DEFAULT_MERGED_ROOT_NAME}}
    /\ parsedList = <<>>
    /\ libOutcome = Null
    /\ libLast = "none"
    /\ IdleView
    /\ IdleCanon
    /\ IdleTranslation
    /\ IdleCleaner

\* chooseMergedParentPath(occurrences, referenceFile, mergedRootName)
PathChoose ==
    /\ libLast = "none"
    /\ libOutcome' = <<chooseMergedParentPath(libInput[1], libInput[2], libInput[3])>>
    /\ libLast' = "chooseMergedParentPath"
    /\ UNCHANGED <<libInput, parsedList, viewVars, canonVars, trVars, tcVars>>

NextPath == PathChoose

SpecPath == InitPath /\ [][NextPath]_vars

-----------------------------------------------------------------------------
(* chooseMergedRootName on its own: applied to a reference file with a     *)
(* root name and at most MaxRootOccurrences definitions, alone or followed  *)
(* by a second file.                                                        *)

MaxRootOccurrences == 2

\* ParsedUdtFile.rootName: null or a name that normalizeRootName returned
RootNames == {NoName, "Plant", "x"}

RootPathSegments ==
    { <<"Plant">>, <<"Plant", "Motor">>, <<"x", "Motor">>, <<"Motor">> }

\* the field of a UdtOccurrence that chooseMergedRootName reads
RootOccurrences == {[pathSegments |-> p] : p \in RootPathSegments}

RootReferenceFiles ==
    {[fileName |-> "a.json", rootName |-> r, udts |-> MkSeq(udts)] :
        r \in RootNames,
        udts \in UNION {[1..n -> RootOccurrences] : n \in 0..MaxRootOccurrences}}

RootOtherFiles ==
    { <<>>,
      << [fileName |-> "b.json", rootName |-> "x", udts |-> << [pathSegments |-> <<"x", "Motor">>] >>] >> }

InitRoot ==
    /\ libInput \in {<< <<reference>> \o others >> :
                         reference \in RootReferenceFiles, others \in RootOtherFiles}
    /\ parsedList = <<>>
    /\ libOutcome = Null
    /\ libLast = "none"
    /\ IdleView
    /\ IdleCanon
    /\ IdleTranslation
    /\ IdleCleaner

\* chooseMergedRootName(files)
RootChoose ==
    /\ libLast = "none"
    /\ libOutcome' = <<chooseMergedRootName(libInput[1])>>
    /\ libLast' = "chooseMergedRootName"
    /\ UNCHANGED <<libInput, parsedList, viewVars, canonVars, trVars, tcVars>>

NextRoot == RootChoose

SpecRoot == InitRoot /\ [][NextRoot]_vars

-----------------------------------------------------------------------------
(* buildMergedUdtFile on its own: applied to every choice of a parent path *)
(* of at most MaxTreePathLength segments for some of three definitions.     *)

MaxTreePathLength == 2

TreeSegments == {"x", "Pump"}

TreePaths == UNION {[1..n -> TreeSegments] : n \in 0..MaxTreePathLength}

\* the keys of mergedByName in insertion order
TreeNames == << "Pump", "a", "Motor" >>

NotMerged == <<"absent">>

\* the arguments for one choice: the names that have a path, with their
\* definition and their path
TreeArguments(choice) ==
    LET names == SelectSeq(TreeNames, LAMBDA n : choice[n] # NotMerged)
    IN << "Plant",
          MkSeq([i \in 1..Len(names) |-> <<names[i], Udt(names[i], <<>>)>>]),
          MkSeq([i \in 1..Len(names) |-> <<names[i], MkSeq(choice[names[i]])>>]) >>

InitTree ==
    /\ libInput \in {TreeArguments(choice) :
                         choice \in [Range(TreeNames) -> TreePaths \cup {NotMerged}]}
    /\ parsedList = <<>>
    /\ libOutcome = Null
    /\ libLast = "none"
    /\ IdleView
    /\ IdleCanon
    /\ IdleTranslation
    /\ IdleCleaner

\* buildMergedUdtFile(mergedRootName, mergedByName, udtParentPathsByName)
TreeBuild ==
    /\ libLast = "none"
    /\ libOutcome' = <<buildMergedUdtFile(libInput[1], libInput[2], libInput[3])>>
    /\ libLast' = "buildMergedUdtFile"
    /\ UNCHANGED <<libInput, parsedList, viewVars, canonVars, trVars, tcVars>>

NextTree == TreeBuild

SpecTree == InitTree /\ [][NextTree]_vars

-----------------------------------------------------------------------------
(* inspectDifference on its own: applied to the difference of one name     *)
(* defined differently in two to MaxVariants files.                        *)

MaxVariants == 3

ChildX1 == Obj(<< <<"name", Str("x")>>, <<"a", Num("1")>> >>)
ChildX2 == Obj(<< <<"name", Str("x")>>, <<"a", Num("2")>> >>)
ChildY == Obj(<< <<"name", Str("y")>> >>)

\* what a definition holds under the key x, and under the key tags
InspectProperties ==
    << <<>>,
       << <<"x", Num("1")>> >>,
       << <<"x", Num("2")>> >>,
       << <<"x", Arr(<<Num("2"), Num("1")>>)>> >>,
       << <<"x", Arr(<<Num("2")>>)>> >>,
       << <<"x", Obj(<< <<"a", Num("1")>> >>)>> >> >>

InspectTags ==
    << <<>>,
       << <<"tags", Arr(<<>>)>> >>,
       << <<"tags", Arr(<<ChildX1>>)>> >>,
       << <<"tags", Arr(<<ChildY, ChildX2>>)>> >> >>

\* the definitions of Motor the files may hold
InspectDefinitions ==
    FlattenSeq([p \in 1..Len(InspectProperties) |->
        MkSeq([t \in 1..Len(InspectTags) |-> Udt("Motor", InspectProperties[p] \o InspectTags[t])])])

InspectFileNames == << "a", "a.json", "b", "b.json", "c" >>

\* the difference syncUdtDefinitions reports for the files that hold these
\* definitions of Motor at their root
DifferenceOf(definitions) ==
    LET occurrences == FlattenSeq([i \in 1..Len(definitions) |->
                           collectUdtOccurrences(definitions[i], <<>>, InspectFileNames[i])])
    IN [name |-> "Motor", missingIn |-> <<>>, variants |-> VariantsOf(occurrences)]

InitInspect ==
    /\ libInput \in
          UNION {{MkSeq([i \in 1..n |-> InspectDefinitions[pick[i]]]) :
                     pick \in {f \in [1..n -> 1..Len(InspectDefinitions)] :
                                  \A i \in 1..(n - 1) : f[i] < f[i + 1]}} :
                 n \in 2..MaxVariants}
    /\ parsedList = <<>>
    /\ libOutcome = Null
    /\ libLast = "none"
    /\ IdleView
    /\ IdleCanon
    /\ IdleTranslation
    /\ IdleCleaner

\* inspectDifference(difference)
Inspect ==
    /\ libLast = "none"
    /\ libOutcome' = <<inspectDifference(DifferenceOf(libInput))>>
    /\ libLast' = "inspectDifference"
    /\ UNCHANGED <<libInput, parsedList, viewVars, canonVars, trVars, tcVars>>

NextInspect == Inspect

SpecInspect == InitInspect /\ [][NextInspect]_vars

-----------------------------------------------------------------------------
(* inspectDifference under reordering: the files of a difference are       *)
(* rewritten with the keys of their objects and the elements of their      *)
(* arrays in another order, and the difference is inspected again.         *)

MaxReorderedVariants == 2

ChildIdA == Obj(<< <<"id", Str("a")>> >>)
ChildIdB == Obj(<< <<"id", Str("b")>> >>)

\* definitions of Motor with arrays of scalars, arrays matched by name and
\* arrays matched by id
ReorderDefinitions ==
    << Udt("Motor", << <<"x", Arr(<<Num("2"), Num("1")>>)>> >>),
       Udt("Motor", << <<"x", Arr(<<Num("2")>>)>> >>),
       Udt("Motor", << <<"x", Arr(<<ChildIdB, ChildIdA>>)>> >>),
       Udt("Motor", << <<"tags", Arr(<<ChildY, ChildX1>>)>> >>),
       Udt("Motor", << <<"tags", Arr(<<ChildX2>>)>> >>) >>

InitReorder ==
    /\ libInput \in
          UNION {{MkSeq([i \in 1..n |-> ReorderDefinitions[pick[i]]]) :
                     pick \in {f \in [1..n -> 1..Len(ReorderDefinitions)] :
                                  \A i \in 1..(n - 1) : f[i] < f[i + 1]}} :
                 n \in 2..MaxReorderedVariants}
    /\ parsedList = <<>>
    /\ libOutcome = Null
    /\ libLast = "none"
    /\ IdleView
    /\ IdleCanon
    /\ IdleTranslation
    /\ IdleCleaner

\* the same files with keys and elements in another order, inspected again
InspectReordered ==
    /\ libLast = "inspectDifference"
    /\ \E reordered \in ReorderingsOfEach(libInput) \ {libInput} :
          /\ libInput' = reordered
          /\ libOutcome' = <<inspectDifference(DifferenceOf(reordered))>>
    /\ libLast' = "reordered"
    /\ UNCHANGED <<parsedList, viewVars, canonVars, trVars, tcVars>>

NextReorder == Inspect \/ InspectReordered

SpecReorder == InitReorder /\ [][NextReorder]_vars

-----------------------------------------------------------------------------
(* Sync Translation (utils/mergeTranslations.ts and                        *)
(* components/SyncTranslation.tsx).  A term is a record [key, text]; a file *)
(* holds the terms parseTranslationXML returns for its text.                *)

\* the distinct texts of key in terms, in order of first occurrence
TextsOf(terms, key) ==
    LET withKey == SelectSeq(terms, LAMBDA term : term.key = key)
    IN DedupSeq(MkSeq([i \in 1..Len(withKey) |-> withKey[i].text]))

\* a key with several texts goes to merged with the first of them
mergeTranslationFilesFirstTextWins(parsedFiles) ==
    LET terms == FlattenSeq(parsedFiles)
        keys == DedupSeq(MkSeq([i \in 1..Len(terms) |-> terms[i].key]))
    IN [ merged |-> MkSeq([i \in 1..Len(keys) |->
                        [key |-> keys[i], text |-> TextsOf(terms, keys[i])[1]]]),
         conflicts |-> <<>> ]

\* mergeTranslationFiles: keyMap in insertion order, split by the number of texts
mergeTranslationFiles(parsedFiles) ==
    LET terms == FlattenSeq(parsedFiles)
        keys == DedupSeq(MkSeq([i \in 1..Len(terms) |-> terms[i].key]))
        single == SelectSeq(keys, LAMBDA key : Len(TextsOf(terms, key)) = 1)
        several == SelectSeq(keys, LAMBDA key : Len(TextsOf(terms, key)) # 1)
    IN [ merged |-> MkSeq([i \in 1..Len(single) |->
                        [key |-> single[i], text |-> TextsOf(terms, single[i])[1]]]),
         conflicts |-> MkSeq([i \in 1..Len(several) |->
                           [key |-> several[i], values |-> TextsOf(terms, several[i])]]) ]

\* buildConflictDetails: each value of a conflict with the files it is found in
buildConflictDetails(parsedFiles, fileNames, rawConflicts) ==
    MkSeq([c \in 1..Len(rawConflicts) |->
        [ key |-> rawConflicts[c].key,
          values |-> rawConflicts[c].values,
          valueSources |->
              MkSeq([v \in 1..Len(rawConflicts[c].values) |->
                  LET filesWithValueSet ==
                          {fileNames[f] : f \in {g \in 1..Len(parsedFiles) :
                              \E t \in 1..Len(parsedFiles[g]) :
                                  /\ parsedFiles[g][t].key = rawConflicts[c].key
                                  /\ parsedFiles[g][t].text = rawConflicts[c].values[v]}}
                  IN [ value |-> rawConflicts[c].values[v],
                       files |-> SelectSeq(fileNames,
                                           LAMBDA fileName : fileName \in filesWithValueSet) ]]) ]])

TermLess(a, b) == StrLess(a.key, b.key)

\* only the terms of mergedTerms are exported, whatever is selected
exportableTermsMergedOnly(merged, conflictList, selected) ==
    StableSort(merged, TermLess)

\* the useMemo of exportableTerms; selected is the set of <<key, value>> pairs
\* of selectedConflictValues
exportableTerms(merged, conflictList, selected) ==
    LET fromMerged[n \in 0..Len(merged)] ==
            IF n = 0 THEN <<>> ELSE MapSet(fromMerged[n - 1], merged[n].key, merged[n])
        withSelected[n \in 0..Len(conflictList)] ==
            IF n = 0 THEN fromMerged[Len(merged)]
            ELSE LET key == conflictList[n].key
                     chosen == {pair \in selected : pair[1] = key}
                 IN IF chosen = {} THEN withSelected[n - 1]
                    ELSE MapSet(withSelected[n - 1], key,
                                [key |-> key, text |-> (CHOOSE pair \in chosen : TRUE)[2]])
        termsByKey == withSelected[Len(conflictList)]
    IN StableSort(MkSeq([i \in 1..Len(termsByKey) |-> termsByKey[i][2]]), TermLess)

MaxTranslationFiles == 2
MaxMergeRuns == 1

Term(key, text) == [key |-> key, text |-> text]

\* the term lists a translation file may hold
TermLists ==
    { << Term("a", "x"), Term("b", "x") >>,
      << Term("b", "y"), Term("a", "x"), Term("b", "y") >> }

TranslationFileNames == {"a_en.xml", "b_en.xml"}

\* the File objects the user may pick; File.size grows with the number of entries
TranslationFileChoices ==
    {[name |-> n, size |-> Len(terms), terms |-> terms] :
        n \in TranslationFileNames, terms \in TermLists}

InitTranslation ==
    /\ IdleTranslation
    /\ IdleView
    /\ IdleCanon
    /\ IdleLib
    /\ IdleCleaner

resetMergeOutput ==
    /\ mergedTerms' = <<>>
    /\ conflicts' = <<>>
    /\ selectedConflictValues' = {}

\* handleFileChange of SyncTranslation with one new file in the event
translationHandleFileChange(newFile) ==
    /\ Len(trFiles) < MaxTranslationFiles
    /\ LET found == \E i \in 1..Len(trFiles) :
                        trFiles[i].name = newFile.name /\ trFiles[i].size = newFile.size
       IN trFiles' = IF found THEN trFiles ELSE Append(trFiles, newFile)
    /\ resetMergeOutput
    /\ UNCHANGED <<mergeRuns, viewVars, canonVars, libVars, tcVars>>

\* the onClick of a file's "Remove file" button of SyncTranslation
translationRemoveFile(index) ==
    /\ index \in 1..Len(trFiles)
    /\ trFiles' = SelectIdx(trFiles, LAMBDA i : i # index)
    /\ resetMergeOutput
    /\ UNCHANGED <<mergeRuns, viewVars, canonVars, libVars, tcVars>>

\* handleMerge up to its first await: the call holds the files it was made with
handleMergeCalled ==
    /\ Len(trFiles) > 0
    /\ Len(mergeRuns) < MaxMergeRuns
    /\ mergeRuns' = Append(mergeRuns, trFiles)
    /\ UNCHANGED <<trFiles, mergedTerms, conflicts, selectedConflictValues,
                   viewVars, canonVars, libVars, tcVars>>

\* handleMerge after its last await, for the call at position run
handleMergeResumed(run) ==
    /\ run \in 1..Len(mergeRuns)
    /\ LET runFiles == mergeRuns[run]
           parsedFiles == MkSeq([i \in 1..Len(runFiles) |-> runFiles[i].terms])
           fileNames == MkSeq([i \in 1..Len(runFiles) |-> runFiles[i].name])
           result == mergeTranslationFiles(parsedFiles)
       IN /\ mergedTerms' = result.merged
          /\ conflicts' = buildConflictDetails(parsedFiles, fileNames, result.conflicts)
    /\ selectedConflictValues' = {}
    /\ mergeRuns' = SelectIdx(mergeRuns, LAMBDA i : i # run)
    /\ UNCHANGED <<trFiles, viewVars, canonVars, libVars, tcVars>>

\* selectConflictValue, from the radio button of a value of a listed conflict
selectConflictValue(conflictKey, value) ==
    /\ \E c \in 1..Len(conflicts) :
           /\ conflicts[c].key = conflictKey
           /\ \E v \in 1..Len(conflicts[c].valueSources) :
                  conflicts[c].valueSources[v].value = value
    /\ selectedConflictValues' =
           {pair \in selectedConflictValues : pair[1] # conflictKey} \cup {<<conflictKey, value>>}
    /\ UNCHANGED <<trFiles, mergedTerms, conflicts, mergeRuns,
                   viewVars, canonVars, libVars, tcVars>>

\* clearConflictSelection, from the button shown for a conflict with a selection
clearConflictSelection(conflictKey) ==
    /\ \E c \in 1..Len(conflicts) : conflicts[c].key = conflictKey
    /\ \E pair \in selectedConflictValues : pair[1] = conflictKey
    /\ selectedConflictValues' = {pair \in selectedConflictValues : pair[1] # conflictKey}
    /\ UNCHANGED <<trFiles, mergedTerms, conflicts, mergeRuns,
                   viewVars, canonVars, libVars, tcVars>>

NextTranslation ==
    \/ \E newFile \in TranslationFileChoices : translationHandleFileChange(newFile)
    \/ \E index \in 1..MaxTranslationFiles : translationRemoveFile(index)
    \/ handleMergeCalled
    \/ \E run \in 1..MaxMergeRuns : handleMergeResumed(run)
    \/ \E conflictKey \in {"a", "b"}, value \in {"x", "y"} :
           selectConflictValue(conflictKey, value)
    \/ \E conflictKey \in {"a", "b"} : clearConflictSelection(conflictKey)

SpecTranslation == InitTranslation /\ [][NextTranslation]_vars

-----------------------------------------------------------------------------
(* Properties of a sync run.                                               *)

HasResult == syncResult # Null
Result == syncResult[1]
Parsed == ParsedFiles(files)
NameSet == Range(UdtNames(Parsed))

\* the differences of the result for a name (at most one)
DifferencesFor(name) ==
    SelectSeq(Result.differences, LAMBDA d : d.name = name)

\* the union-merge eligibility shown for a name
Eligible(name) ==
    /\ DifferencesFor(name) # <<>>
    /\ inspectDifference(DifferencesFor(name)[1]).isMissingOnlyDefinitionDifference

RECURSIVE CountUdtNodes(_, _)
\* the number of UdtType nodes called name in the tree below node
CountUdtNodes(node, name) ==
    IF ~isJsonObject(node) THEN 0
    ELSE LET tags == TagsOf(node)
             below[n \in 0..Len(tags)] ==
                 IF n = 0 THEN 0 ELSE below[n - 1] + CountUdtNodes(tags[n], name)
         IN (IF TagTypeIs(node, "UdtType") /\ NodeName(node) = name THEN 1 ELSE 0)
            + below[Len(tags)]

\* C1: every definition name that occurs in at least one file appears exactly
\* once in mergedUdts, and the merged tree contains exactly one node for it,
\* also when a UdtType node sits inside the tags of another UdtType node.
C1_OneNodePerName ==
    HasResult =>
        \A name \in NameSet :
            /\ Cardinality({i \in 1..Len(Result.mergedUdts) :
                               NodeName(Result.mergedUdts[i]) = name}) = 1
            /\ CountUdtNodes(Result.mergedFile, name) = 1

RECURSIVE FolderAt(_, _)
\* the folder reached from node along path; <<>> when there is none
FolderAt(node, path) ==
    IF path = <<>> THEN <<node>>
    ELSE LET idx == FolderChildIndex(node, Head(path))
         IN IF idx = 0 THEN <<>> ELSE FolderAt(TagsOf(node)[idx], Tail(path))

\* the definitions called name that the tree holds at the name's resolved
\* parent path
PlacedDefinitions(tree, name) ==
    LET folder == FolderAt(tree, LookupEntry(Result.udtParentPathsByName, name, <<>>))
    IN IF folder = <<>> THEN <<>>
       ELSE SelectSeq(TagsOf(folder[1]),
                      LAMBDA n : TagTypeIs(n, "UdtType") /\ NodeName(n) = name)

\* the definition the reference-file policy chose for name
ReferencePolicyDefinition(name) ==
    SelectSeq(Result.mergedUdts, LAMBDA d : NodeName(d) = name)[1]

Download == mergedFileForDownload(Result, unionMergeSelections)

RECURSIVE KeptIn(_, _)
\* every path and value of ref is present, canonically unchanged, in merged
KeptIn(ref, merged) ==
    IF isJsonObject(ref) /\ isJsonObject(merged)
    THEN \A i \in 1..Len(Entries(ref)) :
             /\ HasKey(merged, Entries(ref)[i][1])
             /\ KeptIn(Entries(ref)[i][2], Get(merged, Entries(ref)[i][1]))
    ELSE IF isArray(ref) /\ isArray(merged)
    THEN \E f \in [1..Len(Items(ref)) -> 1..Len(Items(merged))] :
             /\ \A i, j \in 1..Len(Items(ref)) : i # j => f[i] # f[j]
             /\ \A i \in 1..Len(Items(ref)) : KeptIn(Items(ref)[i], Items(merged)[f[i]])
    ELSE canonicalizeJson(ref) = canonicalizeJson(merged)

\* C2: when union merge is selected for an eligible name, every path and value
\* of the reference-policy definition is kept canonically unchanged in the
\* union-merged definition, arrays with duplicate elements included.
C2_UnionKeepsReference ==
    HasResult =>
        \A name \in NameSet :
            (name \in unionMergeSelections /\ Eligible(name)) =>
                /\ Len(PlacedDefinitions(Download, name)) = 1
                /\ KeptIn(ReferencePolicyDefinition(name), PlacedDefinitions(Download, name)[1])

RECURSIVE ValuesConflict(_, _)
\* a and b both hold a value at some path and the two values differ
ValuesConflict(a, b) ==
    IF isJsonObject(a) /\ isJsonObject(b)
    THEN \E i \in 1..Len(Entries(a)) :
             /\ HasKey(b, Entries(a)[i][1])
             /\ ValuesConflict(Entries(a)[i][2], Get(b, Entries(a)[i][1]))
    ELSE IF isArray(a) /\ isArray(b)
    THEN LET matchKey == findArrayMatchKey(<<Items(a), Items(b)>>)
         IN IF matchKey # NoMatchKey
            THEN \E i \in 1..Len(Items(a)), j \in 1..Len(Items(b)) :
                     /\ Get(Items(a)[i], matchKey) = Get(Items(b)[j], matchKey)
                     /\ ValuesConflict(Items(a)[i], Items(b)[j])
            ELSE \E i \in 1..Len(Items(a)) :
                     i <= Len(Items(b)) /\ ValuesConflict(Items(a)[i], Items(b)[i])
    ELSE canonicalizeJson(a) # canonicalizeJson(b)

\* C3: a difference classified union-merge-eligible is a missing-only
\* mismatch whatever the number of variants: no two variants hold different
\* values at a shared path.
C3_EligibleIsMissingOnly ==
    HasResult =>
        \A name \in NameSet :
            Eligible(name) =>
                LET defs == inspectDifference(DifferencesFor(name)[1]).normalizedVariantDefinitions
                IN \A i, j \in 1..Len(defs) : ~ValuesConflict(defs[i], defs[j])

\* C4: a name that is not union-merge-eligible gets in the downloaded tree
\* exactly the definition chosen by the reference-file policy, whatever the
\* union-merge selections.
C4_IneligibleKeepsReference ==
    HasResult =>
        \A name \in NameSet :
            ~Eligible(name) =>
                PlacedDefinitions(Download, name) = <<ReferencePolicyDefinition(name)>>

\* union merge is selected for a name that is not eligible
C4_Witness ==
    /\ HasResult
    /\ \E name \in NameSet :
          /\ name \in unionMergeSelections
          /\ ~Eligible(name)
          /\ Len(DifferencesFor(name)[1].variants) > 1
          /\ PlacedDefinitions(Download, name) = <<ReferencePolicyDefinition(name)>>

\* C5: the merged definition of a name is its first occurrence in files[0]
\* when files[0] contains the name, and otherwise its first occurrence in
\* upload order.
C5_ReferenceThenUploadOrder ==
    HasResult =>
        \A name \in NameSet :
            LET all == AllOccurrences(Parsed)
                inFirst == {i \in 1..Len(Parsed[1].udts) : Parsed[1].udts[i].name = name}
                anywhere == {i \in 1..Len(all) : all[i].name = name}
                expected ==
                    IF inFirst # {}
                    THEN Parsed[1].udts[CHOOSE i \in inFirst : \A j \in inFirst : i <= j]
                    ELSE all[CHOOSE i \in anywhere : \A j \in anywhere : i <= j]
            IN ReferencePolicyDefinition(name) = expected.definition

\* a name occurs twice in the reference file with different content, and a
\* name is absent from the reference file
C5_Witness ==
    /\ HasResult
    /\ Len(files) = 2
    /\ \E name \in NameSet :
          Cardinality({Parsed[1].udts[i].canonical :
                          i \in {k \in 1..Len(Parsed[1].udts) : Parsed[1].udts[k].name = name}}) = 2
    /\ \E name \in NameSet :
          \A i \in 1..Len(Parsed[1].udts) : Parsed[1].udts[i].name # name

\* C6: a name whose occurrences all have the same canonical signature has no
\* Difference record if and only if every file of the input list contains
\* an occurrence of it, also when two files carry the same fileName.
C6_NoDifferenceIffEverywhere ==
    HasResult =>
        \A name \in NameSet :
            LET occurrences == OccurrencesOf(Parsed, name)
            IN (\A i, j \in 1..Len(occurrences) :
                    occurrences[i].canonical = occurrences[j].canonical) =>
                   ((DifferencesFor(name) = <<>>)
                    <=> (\A f \in 1..Len(Parsed) :
                             \E i \in 1..Len(Parsed[f].udts) : Parsed[f].udts[i].name = name))

\* the files of the run are two files with one occurrence of name each
TwoSingleOccurrences(name) ==
    /\ Len(files) = 2
    /\ \A f \in 1..2 : Len(SelectSeq(Parsed[f].udts, LAMBDA occ : occ.name = name)) = 1

\* the definition of name in file f, when it has one occurrence
DefinitionIn(f, name) == SelectSeq(Parsed[f].udts, LAMBDA occ : occ.name = name)[1].definition

\* less is full without its property key
OmitsProperty(full, less, key) ==
    /\ HasKey(full, key)
    /\ ~HasKey(less, key)
    /\ Range(ObjectKeys(less)) = Range(ObjectKeys(full)) \ {key}
    /\ \A k \in Range(ObjectKeys(less)) :
           canonicalizeJson(Get(less, k)) = canonicalizeJson(Get(full, k))

\* the variant of the difference whose content is definition
VariantWith(difference, definition) ==
    CHOOSE v \in 1..Len(difference.variants) :
        canonicalizeJson(difference.variants[v].examples[1].definition)
            = canonicalizeJson(definition)

\* C9: when two files define the same name identically except that one omits
\* a property, there is one Difference with 2 variants, the omitting variant
\* has a missing record at the property's path attributing the other variant,
\* no variant has an unequal record, the difference is union-merge-eligible,
\* and with union merge selected the merged definition contains the omitted
\* property with the value of the variant that has it.
C9_OmittedPropertyScenario ==
    HasResult =>
        \A name \in NameSet, a \in 1..2, key \in {"rpmMax", "ratedVoltage", "x"} :
            (/\ TwoSingleOccurrences(name)
             /\ OmitsProperty(DefinitionIn(a, name), DefinitionIn(3 - a, name), key)) =>
                /\ Len(DifferencesFor(name)) = 1
                /\ LET difference == DifferencesFor(name)[1]
                       inspection == inspectDifference(difference)
                       details == inspection.variantDifferenceDetails
                       has == VariantWith(difference, DefinitionIn(a, name))
                       omits == VariantWith(difference, DefinitionIn(3 - a, name))
                   IN /\ Len(difference.variants) = 2
                      /\ <<name \o "." \o key, has>> \in missingProperties(details, omits)
                      /\ \A v \in 1..2 : unequalValues(details, v) = {}
                      /\ inspection.isMissingOnlyDefinitionDifference
                      /\ name \in unionMergeSelections =>
                             /\ Len(PlacedDefinitions(Download, name)) = 1
                             /\ HasKey(PlacedDefinitions(Download, name)[1], key)
                             /\ canonicalizeJson(Get(PlacedDefinitions(Download, name)[1], key))
                                    = canonicalizeJson(Get(DefinitionIn(a, name), key))

\* a and b have the same properties and differ in the scalar value of key only
DiffersInScalar(a, b, key) ==
    /\ Range(ObjectKeys(a)) = Range(ObjectKeys(b))
    /\ HasKey(a, key)
    /\ ~isJsonObject(Get(a, key)) /\ ~isArray(Get(a, key))
    /\ ~isJsonObject(Get(b, key)) /\ ~isArray(Get(b, key))
    /\ Get(a, key) # Get(b, key)
    /\ \A k \in Range(ObjectKeys(a)) \ {key} :
           canonicalizeJson(Get(a, k)) = canonicalizeJson(Get(b, k))

\* the statement of the unequal-value scenario with the unequal records at
\* the path label pathOf(name, key)
UnequalScenario(pathOf(_, _)) ==
    HasResult =>
        \A name \in NameSet, key \in {"rpmMax", "ratedVoltage"} :
            (/\ TwoSingleOccurrences(name)
             /\ DiffersInScalar(DefinitionIn(1, name), DefinitionIn(2, name), key)) =>
                /\ Len(DifferencesFor(name)) = 1
                /\ LET difference == DifferencesFor(name)[1]
                       inspection == inspectDifference(difference)
                       details == inspection.variantDifferenceDetails
                   IN /\ Len(difference.variants) = 2
                      /\ <<pathOf(name, key), 2>> \in unequalValues(details, 1)
                      /\ <<pathOf(name, key), 1>> \in unequalValues(details, 2)
                      /\ ~inspection.isMissingOnlyDefinitionDifference
                /\ Get(ReferencePolicyDefinition(name), key) = Get(DefinitionIn(1, name), key)
                /\ Len(PlacedDefinitions(Download, name)) = 1
                /\ Get(PlacedDefinitions(Download, name)[1], key) = Get(DefinitionIn(1, name), key)

PropertyAlone(name, key) == key
NameDotProperty(name, key) == name \o "." \o key

\* C10 as stated: with ratedVoltage 480 in one file and 600 in the other there
\* is one Difference with 2 variants, each variant has an unequal record at
\* path "ratedVoltage" attributing the other, the difference is not
\* union-merge-eligible and the merged output holds the reference file's value.
C10_UnequalAtPropertyPath == UnequalScenario(PropertyAlone)

\* C10 amended: the same, with the unequal records at the path label
\* "Motor.ratedVoltage" (the definition name, a dot, the property).
C10_UnequalAtNamedPath == UnequalScenario(NameDotProperty)

\* the 480 / 600 run, synced, with union merge switched on for Motor
C10_Witness ==
    /\ HasResult
    /\ Len(files) = 2
    /\ files[1].content = FolderNode("_types_", <<MotorFull>>)
    /\ files[2].content = FolderNode("_types_", <<Motor600>>)
    /\ "Motor" \in unionMergeSelections
    /\ Get(PlacedDefinitions(Download, "Motor")[1], "ratedVoltage") = Num("480")

-----------------------------------------------------------------------------
(* Properties of the exported functions, by a caller of the library.       *)

LibReturned(call) == libLast = call /\ libOutcome # Null /\ ~isThrown(libOutcome[1])
LibThrew(call) == libLast = call /\ libOutcome # Null /\ isThrown(libOutcome[1])
LibResult == libOutcome[1]

\* the names of the files of the list, in list order, that hold no occurrence of name
FilesWithout(parsedFiles, name) ==
    LET without == SelectSeq(parsedFiles,
                             LAMBDA f : \A i \in 1..Len(f.udts) : f.udts[i].name # name)
    IN MkSeq([i \in 1..Len(without) |-> without[i].fileName])

ListedDifferences(result, name) == SelectSeq(result.differences, LAMBDA d : d.name = name)

\* C11: for each name, missingIn is the list of the input files, in upload
\* order, that hold no occurrence of the name; it shares no file with a
\* variant of the name; and the number of variants is the number of distinct
\* contents among the occurrences, whether or not missingIn is empty.
C11_MissingInIsFilesWithout ==
    LibReturned("syncUdtDefinitions") =>
        \A name \in Range(UdtNames(parsedList)) :
            LET occurrences == OccurrencesOf(parsedList, name)
                fileNames == MkSeq([i \in 1..Len(parsedList) |-> parsedList[i].fileName])
                missingIn == MissingIn(fileNames, occurrences)
                variants == VariantsOf(occurrences)
                listed == ListedDifferences(LibResult, name)
            IN /\ missingIn = FilesWithout(parsedList, name)
               /\ \A k \in 1..Len(variants) : Range(variants[k].files) \cap Range(missingIn) = {}
               /\ Len(variants) = Cardinality({occurrences[i].canonical : i \in 1..Len(occurrences)})
               /\ listed # <<>> => /\ listed[1].missingIn = missingIn
                                   /\ listed[1].variants = variants

\* C12: syncUdtDefinitions called with an empty file list throws an error
\* and returns no result object.
C12_EmptyListThrows ==
    (libLast = "syncUdtDefinitions" /\ parsedList = <<>>) =>
        /\ isThrown(LibResult)
        /\ LibResult.error = AT_LEAST_ONE_FILE_MESSAGE

\* syncUdtDefinitions was called with the empty list and threw
C12_Witness ==
    /\ libLast = "syncUdtDefinitions"
    /\ parsedList = <<>>
    /\ LibThrew("syncUdtDefinitions")

-----------------------------------------------------------------------------
(* Errors of a run in the view.                                            *)

\* part occurs in text
Contains(text, part) ==
    \E i \in 1..(Len(text) - Len(part) + 1) : SubSeq(text, i, i + Len(part) - 1) = part

AllParse(fs) == \A i \in 1..Len(fs) : ~JSONParseThrows(fs[i].content)
NoOccurrences(fs) == \A i \in 1..Len(fs) : parseUdtFile(fs[i].name, fs[i].content).udts = <<>>

\* C13: a run over one or more files that all parse and hold no definition
\* occurrence at all ends with the no-definitions-found error, whose text
\* names none of the files, and leaves syncResult null.
C13_NoDefinitionsFound ==
    [][ (handleSyncUdts /\ AllParse(files) /\ NoOccurrences(files)) =>
            /\ errorMessage' =
                  "No UDT definitions were found. Make sure the files are Ignition UDT definition exports."
            /\ \A i \in 1..Len(files) : ~Contains(errorMessage', files[i].name)
            /\ syncResult' = Null ]_vars

\* two files that parse and hold no definition, after the run
C13_Witness ==
    /\ Len(files) = 2
    /\ AllParse(files)
    /\ NoOccurrences(files)
    /\ errorMessage = NO_UDTS_MESSAGE
    /\ syncResult = Null

\* C14: when a file of the list is not valid JSON, the run ends with an error
\* that names a file that is not valid JSON, and no file name but those, and
\* leaves syncResult null, wherever the file is in the list.
C14_InvalidJsonNamesFile ==
    [][ (handleSyncUdts /\ ~AllParse(files)) =>
            LET invalid == {i \in 1..Len(files) : JSONParseThrows(files[i].content)}
            IN /\ \E i \in invalid : Contains(errorMessage', files[i].name)
               /\ \A j \in 1..Len(files) :
                      Contains(errorMessage', files[j].name) =>
                          \E i \in invalid : files[i].name = files[j].name
               /\ syncResult' = Null ]_vars

\* a file with definitions followed by a file that is not valid JSON, after the run
C14_Witness ==
    /\ Len(files) = 2
    /\ ~JSONParseThrows(files[1].content)
    /\ parseUdtFile(files[1].name, files[1].content).udts # <<>>
    /\ JSONParseThrows(files[2].content)
    /\ files[1].name # files[2].name
    /\ errorMessage = InvalidJsonMessage(files[2].name)
    /\ syncResult = Null

-----------------------------------------------------------------------------
(* Independence of the merged tree from the values it was built from.      *)

RECURSIVE Hold(_, _)
\* value, with every object and array of it held by owner
Hold(v, owner) ==
    IF isArray(v)
    THEN <<"a", MkSeq([i \in 1..Len(Items(v)) |-> Hold(Items(v)[i], owner)]), <<owner, Fresh(v)>>>>
    ELSE IF isJsonObject(v)
    THEN <<"o", MkSeq([i \in 1..Len(Entries(v)) |->
                     <<Entries(v)[i][1], Hold(Entries(v)[i][2], owner)>>]),
           <<owner, Fresh(v)>>>>
    ELSE v

RECURSIVE HeldNodes(_)
\* the held objects and arrays that occur in value
HeldNodes(v) ==
    IF ~isNode(v) THEN {}
    ELSE (IF isHeld(v) THEN {v} ELSE {})
         \cup UNION {HeldNodes(IF isArray(v) THEN v[2][i] ELSE v[2][i][2]) : i \in 1..Len(v[2])}

\* every held node in value still has the content it was taken with
Intact(v) == \A n \in HeldNodes(v) : Fresh(n) = n[3][2]

\* the ParsedFile list with every occurrence's definition held by the caller
HoldOccurrences(parsedFiles) ==
    MkSeq([i \in 1..Len(parsedFiles) |->
        [parsedFiles[i] EXCEPT !.udts =
            MkSeq([k \in 1..Len(@) |->
                [@[k] EXCEPT !.definition = Hold(@, "occurrence")]])]])

\* the SyncResult with every variant example's definition held by the view
HoldExamples(result) ==
    [result EXCEPT !.differences =
        MkSeq([i \in 1..Len(@) |->
            [@[i] EXCEPT !.variants =
                MkSeq([k \in 1..Len(@) |->
                    [@[k] EXCEPT !.examples =
                        MkSeq([j \in 1..Len(@) |->
                            [@[j] EXCEPT !.definition = Hold(@, "example")]])]])]])]

\* the example definitions of a result, all variants of all differences
ExampleDefinitions(result) ==
    FlattenSeq(MkSeq([i \in 1..Len(result.differences) |->
        FlattenSeq(MkSeq([k \in 1..Len(result.differences[i].variants) |->
            MkSeq([j \in 1..Len(result.differences[i].variants[k].examples) |->
                result.differences[i].variants[k].examples[j].definition])]))]))

\* C15: after syncUdtDefinitions, inspectDifference, the union-merge toggles
\* and buildMergedUdtFile, no definition of an occurrence of the input list
\* and no example definition of the result has changed, and the merged tree
\* (of the result and of the download) holds none of their objects or arrays.
C15_InputsUntouchedAndUnshared ==
    HasResult =>
        LET run == syncUdtDefinitions(HoldOccurrences(Parsed))
            held == HoldExamples(Result)
            unions == MkSeq([i \in 1..Len(held.differences) |->
                          buildUnionMergedDefinition(held.differences[i])])
            inspections == MkSeq([i \in 1..Len(held.differences) |->
                               inspectDifference(held.differences[i])])
            download == mergedFileForDownload(held, unionMergeSelections)
        IN /\ HeldNodes(run.mergedFile) = {}
           /\ \A i \in 1..Len(run.mergedUdts) : HeldNodes(run.mergedUdts[i]) = {}
           /\ \A i \in 1..Len(ExampleDefinitions(run)) :
                  HeldNodes(ExampleDefinitions(run)[i]) = {}
           /\ HeldNodes(download) = {}
           /\ \A i \in 1..Len(unions) : unions[i] # <<>> => Intact(unions[i][1])
           /\ \A i \in 1..Len(ExampleDefinitions(held)) : Intact(ExampleDefinitions(held)[i])
           /\ \A i \in 1..Len(inspections) :
                  \A k \in 1..Len(inspections[i].normalizedVariantDefinitions) :
                      HeldNodes(inspections[i].normalizedVariantDefinitions[k]) = {}

\* a result with a nested definition and an eligible difference whose union
\* merge is switched on
C15_Witness ==
    /\ HasResult
    /\ \E name \in unionMergeSelections : Eligible(name)
    /\ \E i \in 1..Len(Parsed) : \E k \in 1..Len(Parsed[i].udts) :
           Cardinality(HeldNodes(Hold(Parsed[i].udts[k].definition, "occurrence"))) > 1

-----------------------------------------------------------------------------
(* What the walker records.                                                *)

RECURSIVE ReachableNodes(_)
\* the object nodes reachable from node through tags arrays, node included,
\* parents before children
ReachableNodes(node) ==
    IF ~isJsonObject(node) THEN <<>>
    ELSE <<node>> \o FlattenSeq(MkSeq([i \in 1..Len(TagsOf(node)) |->
                                     ReachableNodes(TagsOf(node)[i])]))

\* the object nodes reachable from the roots of a document
DocumentNodes(document) ==
    IF isArray(document)
    THEN FlattenSeq(MkSeq([i \in 1..Len(Items(document)) |-> ReachableNodes(Items(document)[i])]))
    ELSE ReachableNodes(document)

\* tagType is "UdtType" and name is a non-empty string
IsDefinitionNode(node) ==
    /\ HasKey(node, "tagType") /\ Get(node, "tagType") = Str("UdtType")
    /\ HasKey(node, "name") /\ isString(Get(node, "name")) /\ Get(node, "name") # Str("")

\* C16: parseUdtFile records one occurrence for every object node reachable
\* from a root of the document through tags arrays whose tagType is "UdtType"
\* and whose name is a non-empty string, and no other occurrence.
C16_OneOccurrencePerDefinitionNode ==
    LibReturned("parseUdtFile") =>
        LET expected == SelectSeq(DocumentNodes(libInput[2]), IsDefinitionNode)
            recorded == LibResult.udts
        IN /\ Len(recorded) = Len(expected)
           /\ \A i \in 1..Len(expected) :
                  /\ recorded[i].definition = expected[i]
                  /\ recorded[i].name = Get(expected[i], "name")[2]

-----------------------------------------------------------------------------
(* Order of the merged tree.                                               *)

\* folders first, then by name, between a child and a later child
InOrder(earlier, later) ==
    /\ TagTypeIs(later, "Folder") => TagTypeIs(earlier, "Folder")
    /\ TagTypeIs(earlier, "Folder") = TagTypeIs(later, "Folder") =>
           AtomRank(nodeNameForSort(earlier)) <= AtomRank(nodeNameForSort(later))

ChildrenInOrder(node) ==
    \A i, j \in 1..Len(TagsOf(node)) : i < j => InOrder(TagsOf(node)[i], TagsOf(node)[j])

\* the Folder nodes of a tree, those inside a definition included
FolderNodesOf(tree) ==
    {n \in Range(ReachableNodes(tree)) : TagTypeIs(n, "Folder")}

\* C17: in the tree buildMergedUdtFile returns, the children of the root and
\* of every Folder node have all Folder nodes before all other nodes, and
\* within each of the two groups names that do not decrease.
C17_EveryFolderSorted ==
    HasResult =>
        /\ \A n \in FolderNodesOf(Result.mergedFile) : ChildrenInOrder(n)
        /\ \A n \in FolderNodesOf(Download) : ChildrenInOrder(n)

-----------------------------------------------------------------------------
(* Properties of Sync Translation.                                         *)

\* the parsed term lists of the files a call of handleMerge holds
ParsedOf(runFiles) == MkSeq([i \in 1..Len(runFiles) |-> runFiles[i].terms])

OccurringTerms(parsedFiles) ==
    UNION {{parsedFiles[f][t] : t \in 1..Len(parsedFiles[f])} : f \in 1..Len(parsedFiles)}

OccurringKeys(parsedFiles) == {term.key : term \in OccurringTerms(parsedFiles)}

OccurringTexts(parsedFiles, key) ==
    {term.text : term \in {t \in OccurringTerms(parsedFiles) : t.key = key}}

EntriesFor(list, key) == {i \in 1..Len(list) : list[i].key = key}

SplitsEveryKey(parsedFiles, result) ==
    /\ \A i \in 1..Len(result.merged) : result.merged[i].key \in OccurringKeys(parsedFiles)
    /\ \A i \in 1..Len(result.conflicts) : result.conflicts[i].key \in OccurringKeys(parsedFiles)
    /\ \A key \in OccurringKeys(parsedFiles) :
        LET texts == OccurringTexts(parsedFiles, key)
            inMerged == EntriesFor(result.merged, key)
            inConflicts == EntriesFor(result.conflicts, key)
        IN IF Cardinality(texts) = 1
           THEN /\ Cardinality(inMerged) = 1
                /\ inConflicts = {}
                /\ \A i \in inMerged : {result.merged[i].text} = texts
           ELSE /\ inMerged = {}
                /\ Cardinality(inConflicts) = 1
                /\ \A i \in inConflicts :
                    /\ {result.conflicts[i].values[v] :
                           v \in 1..Len(result.conflicts[i].values)} = texts
                    /\ Len(result.conflicts[i].values) = Cardinality(texts)

\* C18: for the files of every call of handleMerge, mergeTranslationFiles puts
\* every key that occurs in a file in exactly one of merged and conflicts: in
\* merged with its single text when all its occurrences carry the same text, in
\* conflicts with all its distinct texts (each once) when two occurrences
\* differ; and it lists no other key.
C18_MergeSplitsEveryKey ==
    \A run \in 1..Len(mergeRuns) :
        SplitsEveryKey(ParsedOf(mergeRuns[run]), mergeTranslationFiles(ParsedOf(mergeRuns[run])))

\* a call of handleMerge holds two files in which one key has the same text
\* twice and another key has two texts
C18_Witness ==
    \E run \in 1..Len(mergeRuns) :
        LET parsedFiles == ParsedOf(mergeRuns[run])
        IN /\ Len(parsedFiles) = 2
           /\ \E key \in OccurringKeys(parsedFiles) :
                /\ Cardinality(OccurringTexts(parsedFiles, key)) = 1
                /\ \A f \in 1..2 : EntriesFor(parsedFiles[f], key) # {}
           /\ \E key \in OccurringKeys(parsedFiles) :
                Cardinality(OccurringTexts(parsedFiles, key)) = 2
           /\ Len(mergeTranslationFiles(parsedFiles).merged) = 1
           /\ Len(mergeTranslationFiles(parsedFiles).conflicts) = 1

\* what the view would export in the current state
Exportable == exportableTerms(mergedTerms, conflicts, selectedConflictValues)

ConflictKeys == {conflicts[c].key : c \in 1..Len(conflicts)}

SelectedFor(key) == {pair[2] : pair \in {p \in selectedConflictValues : p[1] = key}}

\* C19: in every state of Sync Translation the exportable terms hold a key of
\* the conflict list if and only if a value is selected for it, once and with
\* exactly that value; they hold every term of the merged list once with its
\* text; and they hold nothing else.
C19_ExportFollowsSelection ==
    /\ \A key \in ConflictKeys :
        /\ (EntriesFor(Exportable, key) # {}) <=> (SelectedFor(key) # {})
        /\ Cardinality(EntriesFor(Exportable, key)) <= 1
        /\ \A i \in EntriesFor(Exportable, key) : SelectedFor(key) = {Exportable[i].text}
    /\ \A m \in 1..Len(mergedTerms) :
        /\ Cardinality(EntriesFor(Exportable, mergedTerms[m].key)) = 1
        /\ \A i \in EntriesFor(Exportable, mergedTerms[m].key) : Exportable[i] = mergedTerms[m]
    /\ \A i \in 1..Len(Exportable) :
        Exportable[i].key \in ConflictKeys \cup {mergedTerms[m].key : m \in 1..Len(mergedTerms)}

\* after a merge with one conflict and one merged term, a value other than the
\* first is selected for the conflict and the export holds both keys
C19_Witness ==
    /\ Len(conflicts) = 1
    /\ Len(mergedTerms) = 1
    /\ SelectedFor(conflicts[1].key) = {conflicts[1].values[2]}
    /\ Len(Exportable) = 2

-----------------------------------------------------------------------------
(* Translation Cleaner (utils/zipScanner.ts and                            *)
(* components/TranslationCleaner.tsx).  A ZIP file is a record [name, size, *)
(* valid, entries]; entries are the [path, content] pairs of its files.     *)

\* String.prototype.includes
includes(content, key) == Contains(content, key)

\* String.prototype.endsWith
endsWith(text, suffix) ==
    /\ Len(suffix) <= Len(text)
    /\ SubSeq(text, Len(text) - Len(suffix) + 1, Len(text)) = suffix

RECURSIVE trim(_)
\* String.prototype.trim, for the white space that occurs here (the space)
trim(text) ==
    IF text = "" THEN ""
    ELSE IF SubSeq(text, 1, 1) = " " THEN trim(SubSeq(text, 2, Len(text)))
    ELSE IF SubSeq(text, Len(text), Len(text)) = " " THEN trim(SubSeq(text, 1, Len(text) - 1))
    ELSE text

\* String.prototype.toLowerCase on the paths that occur here
toLowerCase(path) ==
    CASE path = "V.XML" -> "v.xml"
      [] OTHER -> path

SEARCHABLE_TEXT_EXTENSIONS ==
    << ".json", ".xml", ".py", ".sql", ".txt", ".yaml", ".yml", ".csv", ".js", ".ts",
       ".tsx", ".jsx" >>

isSearchable(path) ==
    \E e \in 1..Len(SEARCHABLE_TEXT_EXTENSIONS) :
        endsWith(toLowerCase(path), SEARCHABLE_TEXT_EXTENSIONS[e])

\* extractProjectTextFilesFromZip of a ZIP that JSZip can load
extractProjectTextFilesFromZip(file) ==
    LET searchable == SelectSeq(file.entries, LAMBDA entry : isSearchable(entry.path))
    IN MkSeq([i \in 1..Len(searchable) |->
           [ projectFileName |-> file.name,
             path |-> searchable[i].path,
             content |-> searchable[i].content ]])

\* detectUsedKeys; fileContents is the Record as a list of <<name, content>>
detectUsedKeys(fileContents, keys) ==
    LET searchableKeys == DedupSeq(SelectSeq(keys, LAMBDA key : Len(trim(key)) > 0))
    IN {searchableKeys[k] : k \in {n \in 1..Len(searchableKeys) :
           \E f \in 1..Len(fileContents) : includes(fileContents[f][2], searchableKeys[n])}}

\* detectUsedKeysInProjectFiles: byPath is keyed by projectFileName:path
detectUsedKeysInProjectFiles(extractedFiles, keys) ==
    LET byPath[n \in 0..Len(extractedFiles)] ==
            IF n = 0 THEN <<>>
            ELSE MapSet(byPath[n - 1],
                        extractedFiles[n].projectFileName \o ":" \o extractedFiles[n].path,
                        extractedFiles[n].content)
    IN detectUsedKeys(byPath[Len(extractedFiles)], keys)

\* the terms handleExportCleanedXml passes to buildTranslationXML
cleanedTerms(terms, analysisResult) ==
    SelectSeq(terms, LAMBDA term : term.key \in analysisResult.usedKeys)

MaxZipFiles == 2

\* the translation XML files the user may pick, as parseTranslationDocument reads them
CleanerTranslationChoices ==
    { [name |-> "t_en.xml", terms |-> << Term("ab", "x") >>],
      [name |-> "t_en.xml", terms |-> << Term("b", "x"), Term("c", "y") >>],
      [name |-> "u_en.xml", terms |-> << Term("", "x"), Term("ab", "y") >>],
      [name |-> "u_en.xml", terms |-> << Term("c", "x"), Term("c", "y") >>],
      [name |-> "e_en.xml", terms |-> << >>] }

ZipEntry(path, content) == [path |-> path, content |-> content]

\* the project ZIP files the user may pick; valid is whether JSZip.loadAsync resolves
ZipChoices ==
    { [name |-> "p.zip", size |-> 1, valid |-> TRUE,
       entries |-> << ZipEntry("v.json", "ab") >>],
      [name |-> "p.zip", size |-> 2, valid |-> TRUE,
       entries |-> << ZipEntry("v.json", "c"), ZipEntry("i.png", "b") >>],
      [name |-> "q.zip", size |-> 1, valid |-> TRUE,
       entries |-> << ZipEntry("V.XML", "xb") >>],
      [name |-> "q.zip", size |-> 3, valid |-> FALSE, entries |-> << >>] }

InitCleaner ==
    /\ IdleCleaner
    /\ IdleView
    /\ IdleCanon
    /\ IdleLib
    /\ IdleTranslation

NO_ENTRIES_MESSAGE == "No translation entries were found in this XML file."

ZIP_READ_MESSAGE ==
    "Could not read one or more ZIP files. Make sure they are valid Ignition project exports."

\* handleTranslationFileChange with a file picked
handleTranslationFileChange(selectedFile) ==
    /\ IF Len(selectedFile.terms) = 0
       THEN /\ cleanerError' = NO_ENTRIES_MESSAGE
            /\ UNCHANGED <<translationFile, translationTerms, analysis>>
       ELSE /\ translationFile' = <<selectedFile>>
            /\ translationTerms' = selectedFile.terms
            /\ analysis' = Null
            /\ cleanerError' = ""
    /\ UNCHANGED <<projectZipFiles, isAnalyzing, analysisRun, cleanedExport,
                   viewVars, canonVars, libVars, trVars>>

\* handleProjectZipFilesChange with one file in the event
handleProjectZipFilesChange(file) ==
    /\ Len(projectZipFiles) < MaxZipFiles
    /\ LET alreadyAdded == \E i \in 1..Len(projectZipFiles) :
                               /\ projectZipFiles[i].name = file.name
                               /\ projectZipFiles[i].size = file.size
       IN projectZipFiles' = IF alreadyAdded THEN projectZipFiles
                             ELSE Append(projectZipFiles, file)
    /\ analysis' = Null
    /\ cleanerError' = ""
    /\ UNCHANGED <<translationFile, translationTerms, isAnalyzing, analysisRun, cleanedExport,
                   viewVars, canonVars, libVars, trVars>>

removeProjectZipFile(index) ==
    /\ index \in 1..Len(projectZipFiles)
    /\ projectZipFiles' = SelectIdx(projectZipFiles, LAMBDA i : i # index)
    /\ analysis' = Null
    /\ cleanerError' = ""
    /\ UNCHANGED <<translationFile, translationTerms, isAnalyzing, analysisRun, cleanedExport,
                   viewVars, canonVars, libVars, trVars>>

\* runAnalysis up to its await, from the button that is enabled only when not
\* analysing and a translation file with terms and a ZIP are present
runAnalysisCalled ==
    /\ ~isAnalyzing
    /\ translationFile # Null
    /\ Len(translationTerms) # 0
    /\ Len(projectZipFiles) # 0
    /\ isAnalyzing' = TRUE
    /\ cleanerError' = ""
    /\ analysis' = Null
    /\ analysisRun' = << [translationTerms |-> translationTerms,
                          projectZipFiles |-> projectZipFiles] >>
    /\ UNCHANGED <<translationFile, translationTerms, projectZipFiles, cleanedExport,
                   viewVars, canonVars, libVars, trVars>>

\* runAnalysis after its await, with the terms and ZIPs of its call
runAnalysisResumed ==
    /\ analysisRun # Null
    /\ LET run == analysisRun[1]
           zips == run.projectZipFiles
       IN IF \E z \in 1..Len(zips) : ~zips[z].valid
          THEN /\ cleanerError' = ZIP_READ_MESSAGE
               /\ UNCHANGED analysis
          ELSE LET extractedFiles ==
                       FlattenSeq(MkSeq([z \in 1..Len(zips) |->
                                      extractProjectTextFilesFromZip(zips[z])]))
                   keys == MkSeq([t \in 1..Len(run.translationTerms) |->
                                      run.translationTerms[t].key])
                   usedKeys == detectUsedKeysInProjectFiles(extractedFiles, keys)
               IN /\ analysis' =
                        << [ usedKeys |-> usedKeys,
                             unusedTerms |-> SelectSeq(run.translationTerms,
                                                 LAMBDA term : term.key \notin usedKeys),
                             scannedProjectCount |-> Len(zips),
                             scannedFileCount |-> Len(extractedFiles) ] >>
                  /\ UNCHANGED cleanerError
    /\ isAnalyzing' = FALSE
    /\ analysisRun' = Null
    /\ UNCHANGED <<translationFile, translationTerms, projectZipFiles, cleanedExport,
                   viewVars, canonVars, libVars, trVars>>

\* handleExportCleanedXml, from the button shown with an analysis
handleExportCleanedXml ==
    /\ analysis # Null
    /\ translationFile # Null
    /\ cleanedExport' = << cleanedTerms(translationTerms, analysis[1]) >>
    /\ UNCHANGED <<translationFile, translationTerms, projectZipFiles, analysis, isAnalyzing,
                   cleanerError, analysisRun, viewVars, canonVars, libVars, trVars>>

NextCleaner ==
    \/ \E selectedFile \in CleanerTranslationChoices : handleTranslationFileChange(selectedFile)
    \/ \E file \in ZipChoices : handleProjectZipFilesChange(file)
    \/ \E index \in 1..MaxZipFiles : removeProjectZipFile(index)
    \/ runAnalysisCalled
    \/ runAnalysisResumed
    \/ handleExportCleanedXml

SpecCleaner == InitCleaner /\ [][NextCleaner]_vars

-----------------------------------------------------------------------------
(* Properties of Translation Cleaner.                                      *)

\* the contents of the files of the ZIPs that are scanned: those with a
\* searchable extension
ScannedContents(zips) ==
    UNION {{zips[z].entries[e].content :
               e \in {n \in 1..Len(zips[z].entries) : isSearchable(zips[z].entries[n].path)}} :
           z \in 1..Len(zips)}

\* the full key string is a substring of the content of a scanned file
OccursInProjects(key, zips) == \E content \in ScannedContents(zips) : Contains(content, key)

\* C20: whenever the view shows an analysis, a key of the translation file is
\* in the used set if and only if the full key string is a substring of the
\* content of at least one scanned file of the listed project ZIPs, and the
\* used set holds no other key; every term of the translation file either has
\* its key in the used set or is in the unused list, never both, and the unused
\* list holds nothing else; and the cleaned export holds exactly the terms
\* whose key occurs in a scanned file, in the order of the translation file.
C20_UsedIffSubstring ==
    analysis # Null =>
        LET usedKeys == analysis[1].usedKeys
            unusedTerms == analysis[1].unusedTerms
        IN /\ \A t \in 1..Len(translationTerms) :
                (translationTerms[t].key \in usedKeys)
                    <=> OccursInProjects(translationTerms[t].key, projectZipFiles)
           /\ usedKeys \subseteq {translationTerms[t].key : t \in 1..Len(translationTerms)}
           /\ unusedTerms = SelectSeq(translationTerms, LAMBDA term : term.key \notin usedKeys)
           /\ translationFile # Null =>
                cleanedTerms(translationTerms, analysis[1]) =
                    SelectSeq(translationTerms,
                              LAMBDA term : OccursInProjects(term.key, projectZipFiles))

-----------------------------------------------------------------------------
(* Properties of the Sync UDT view with runs followed through their awaits. *)

\* the result a run over the listed files would show
ResultOfListed(fs) ==
    /\ fs # <<>>
    /\ FirstThrowing(ParsedFiles(fs)) = 0
    /\ Len(AllOccurrences(ParsedFiles(fs))) > 0

\* C21: every step that changes the file list leaves no sync result, and after
\* every step a sync result that is shown is the one syncUdtDefinitions
\* computes from the files then listed, whatever runs of handleSyncUdts were
\* awaiting file reads.
C21_ResultIsOfListedFiles ==
    [][ /\ (files' # files => syncResult' = Null)
        /\ (syncResult' # Null =>
              /\ ResultOfListed(files')
              /\ syncResult' = <<syncUdtDefinitions(ParsedFiles(files'))>>) ]_vars

-----------------------------------------------------------------------------
(* Properties of the variants of a listed difference.                      *)

\* the positions in the list of the files that hold an occurrence of name with
\* the canonical signature
ContributingFiles(parsedFiles, name, canonical) ==
    {f \in 1..Len(parsedFiles) :
        \E i \in 1..Len(parsedFiles[f].udts) :
            /\ parsedFiles[f].udts[i].name = name
            /\ parsedFiles[f].udts[i].canonical = canonical}

\* the first occurrence of name with the canonical signature in one file
FirstOccurrenceIn(parsedFile, name, canonical) ==
    SelectSeq(parsedFile.udts, LAMBDA occ : occ.name = name /\ occ.canonical = canonical)[1]

ExampleFileNames(variant) ==
    MkSeq([e \in 1..Len(variant.examples) |-> variant.examples[e].fileName])

\* C22: for every listed difference, all example definitions inside one variant
\* are canonically identical, no two variants are canonically identical, every
\* occurrence of the name has the signature of exactly one variant, each variant
\* has exactly one example for each input file that holds an occurrence with
\* its signature, that example being the file's first such occurrence, and
\* the file names of the examples are the variant's files.
C22_VariantsPartitionOccurrences ==
    LibReturned("syncUdtDefinitions") =>
        \A d \in 1..Len(LibResult.differences) :
            LET name == LibResult.differences[d].name
                variants == LibResult.differences[d].variants
                signature(k) == canonicalizeJson(variants[k].examples[1].definition)
                occurrences == OccurrencesOf(parsedList, name)
            IN /\ \A k \in 1..Len(variants) :
                    /\ variants[k].examples # <<>>
                    /\ \A e \in 1..Len(variants[k].examples) :
                          canonicalizeJson(variants[k].examples[e].definition) = signature(k)
                    /\ LET contributing == ContributingFiles(parsedList, name, signature(k))
                       IN /\ Len(variants[k].examples) = Cardinality(contributing)
                          /\ \A f \in contributing :
                                LET first == FirstOccurrenceIn(parsedList[f], name, signature(k))
                                IN \E e \in 1..Len(variants[k].examples) :
                                      /\ variants[k].examples[e].fileName = parsedList[f].fileName
                                      /\ variants[k].examples[e].path = first.path
                                      /\ variants[k].examples[e].definition =
                                             normalizeJsonForDisplay(first.definition)
                    /\ ExampleFileNames(variants[k]) = variants[k].files
               /\ \A j, k \in 1..Len(variants) : signature(j) = signature(k) => j = k
               /\ \A i \in 1..Len(occurrences) :
                    \E k \in 1..Len(variants) : occurrences[i].canonical = signature(k)

-----------------------------------------------------------------------------
(* Properties of chooseMergedParentPath.                                   *)

\* the distinct root-relative parent paths of the occurrences
CandidatePaths(occurrences, mergedRootName) ==
    {relativeParentPathForRoot(occurrences[i].parentPathSegments, mergedRootName) :
        i \in 1..Len(occurrences)}

OccurrencesAt(occurrences, mergedRootName, path) ==
    {i \in 1..Len(occurrences) :
        relativeParentPathForRoot(occurrences[i].parentPathSegments, mergedRootName) = path}

\* path c comes before path d: more segments, then more occurrences, then an
\* occurrence from the reference file, then the smaller joined string
PathBefore(occurrences, referenceFile, mergedRootName, c, d) ==
    LET countC == Cardinality(OccurrencesAt(occurrences, mergedRootName, c))
        countD == Cardinality(OccurrencesAt(occurrences, mergedRootName, d))
        refC == \E i \in OccurrencesAt(occurrences, mergedRootName, c) :
                    occurrences[i].sourceFile = referenceFile
        refD == \E i \in OccurrencesAt(occurrences, mergedRootName, d) :
                    occurrences[i].sourceFile = referenceFile
    IN \/ Len(c) > Len(d)
       \/ Len(c) = Len(d) /\ countC > countD
       \/ Len(c) = Len(d) /\ countC = countD /\ refC /\ ~refD
       \/ Len(c) = Len(d) /\ countC = countD /\ refC = refD /\ SeqLess(c, d)

\* C23: chooseMergedParentPath returns one of the distinct root-relative parent
\* paths of the occurrences, and that path comes before every other one under
\* the priority: most segments, then highest occurrence count, then holding an
\* occurrence from the reference file, then smallest joined path string.
C23_BestParentPath ==
    (libLast = "chooseMergedParentPath" /\ libInput[1] # <<>>) =>
        LET candidates == CandidatePaths(libInput[1], libInput[3])
            chosen == libOutcome[1]
        IN /\ chosen \in candidates
           /\ \A d \in candidates \ {chosen} :
                 PathBefore(libInput[1], libInput[2], libInput[3], chosen, d)

\* three occurrences at two paths: the shallower path holds two of them and
\* the deeper path, with one occurrence, is returned
C23_Witness ==
    /\ libLast = "chooseMergedParentPath"
    /\ Len(libInput[1]) = 3
    /\ Cardinality(CandidatePaths(libInput[1], libInput[3])) = 2
    /\ \E d \in CandidatePaths(libInput[1], libInput[3]) :
          /\ Len(d) < Len(libOutcome[1])
          /\ Cardinality(OccurrencesAt(libInput[1], libInput[3], d)) = 2

-----------------------------------------------------------------------------
(* Properties of chooseMergedRootName.                                     *)

\* the root name of the reference file is not null and is the first path
\* segment of every definition of the reference file
ReferenceRootIsShared(parsedFiles) ==
    /\ parsedFiles[1].rootName # NoName
    /\ \A i \in 1..Len(parsedFiles[1].udts) :
          parsedFiles[1].udts[i].pathSegments[1] = parsedFiles[1].rootName

\* C24: chooseMergedRootName returns the root name of the reference file when
\* that root name is not null and every definition of the reference file has
\* it as first path segment, and "merged_udt_definitions" in every other case.
C24_ReferenceRootOrDefault ==
    libLast = "chooseMergedRootName" =>
        libOutcome[1] = IF ReferenceRootIsShared(libInput[1])
                        THEN libInput[1][1].rootName
                        ELSE "merged_udt_definitions"

\* the reference file has a root name that one of its two definitions does
\* not start with, and the default label was returned
C24_Witness ==
    /\ libLast = "chooseMergedRootName"
    /\ libInput[1][1].rootName = "Plant"
    /\ Len(libInput[1][1].udts) = 2
    /\ libInput[1][1].udts[1].pathSegments[1] = "Plant"
    /\ libInput[1][1].udts[2].pathSegments[1] # "Plant"
    /\ libOutcome[1] = "merged_udt_definitions"

-----------------------------------------------------------------------------
(* Properties of the tree buildMergedUdtFile returns.                      *)

\* the positions among the children of node of the Folder nodes called folderName
ChildFoldersNamed(node, folderName) ==
    {i \in 1..Len(TagsOf(node)) :
        /\ isJsonObject(TagsOf(node)[i])
        /\ TagTypeIs(TagsOf(node)[i], "Folder")
        /\ NodeName(TagsOf(node)[i]) = folderName}

RECURSIVE FoldersAlong(_, _)
\* the folders reached from node by following path segment by segment
FoldersAlong(node, path) ==
    IF path = <<>> THEN {node}
    ELSE UNION {FoldersAlong(TagsOf(node)[i], Tail(path)) :
                   i \in ChildFoldersNamed(node, Head(path))}

RECURSIVE FolderStructure(_)
\* the root and the folders below it through Folder nodes only
FolderStructure(node) ==
    {node} \cup UNION {FolderStructure(TagsOf(node)[i]) :
                          i \in {j \in 1..Len(TagsOf(node)) : nodeIsFolder(TagsOf(node)[j])}}

\* C25: in the tree buildMergedUdtFile returns, following the resolved parent
\* path of a merged definition from the root, segment by segment through child
\* folders, reaches one folder, and a copy of the definition is a direct child
\* of it; and no folder of the tree has two child folders with the same name.
C25_DefinitionUnderItsParentPath ==
    libLast = "buildMergedUdtFile" =>
        LET tree == libOutcome[1]
        IN /\ \A n \in 1..Len(libInput[2]) :
                LET reached == FoldersAlong(tree, LookupEntry(libInput[3], libInput[2][n][1], <<>>))
                IN /\ Cardinality(reached) = 1
                   /\ \A folder \in reached :
                         Cardinality({i \in 1..Len(TagsOf(folder)) :
                                         TagsOf(folder)[i] = libInput[2][n][2]}) = 1
           /\ \A folder \in FolderStructure(tree) :
                \A i, j \in 1..Len(TagsOf(folder)) :
                    (/\ nodeIsFolder(TagsOf(folder)[i])
                     /\ nodeIsFolder(TagsOf(folder)[j])
                     /\ NodeName(TagsOf(folder)[i]) = NodeName(TagsOf(folder)[j])) => i = j

\* two definitions share the first folder of their paths and a third one
\* lies in a folder that has the name of a definition
C25_Witness ==
    /\ libLast = "buildMergedUdtFile"
    /\ Len(libInput[2]) = 3
    /\ LookupEntry(libInput[3], "Motor", <<>>) = <<"x">>
    /\ LookupEntry(libInput[3], "a", <<>>) = <<"x", "Pump">>
    /\ LookupEntry(libInput[3], "Pump", <<>>) = <<>>
    /\ Cardinality(ChildFoldersNamed(libOutcome[1], "x")) = 1
    /\ Len(TagsOf(libOutcome[1])) = 2

-----------------------------------------------------------------------------
(* Properties of the records of analyzeVariantDifferences.                 *)

InspectedValues == libOutcome[1].normalizedVariantDefinitions
InspectedDetails == libOutcome[1].variantDifferenceDetails

PresentAt(pathValues) == {i \in 1..Len(pathValues) : pathValues[i] # MISSING_JSON_VALUE}
LackingAt(pathValues) == {i \in 1..Len(pathValues) : pathValues[i] = MISSING_JSON_VALUE}

RECURSIVE Comparisons(_, _)
\* the calls of compareAtPath made for this path and below, as pairs
\* <<pathSegments, pathValues>>
Comparisons(pathSegments, pathValues) ==
    {<<pathSegments, pathValues>>}
    \cup IF \/ (Len(pathSegments) > 0 /\ LackingAt(pathValues) # {} /\ PresentAt(pathValues) # {})
            \/ PresentAt(pathValues) = {}
         THEN {}
         ELSE IF \/ \A i \in PresentAt(pathValues) : isJsonObject(pathValues[i])
                 \/ \A i \in PresentAt(pathValues) : isArray(pathValues[i])
         THEN UNION {Comparisons(child[1], child[2]) :
                        child \in ChildComparisons(pathSegments, pathValues)}
         ELSE {}

\* the locations analyzeVariantDifferences compares
ComparedLocations == Comparisons(rootPathSegments(InspectedValues), InspectedValues)

\* the indexes the record of a variant at a path attributes
Attributed(list, path) == {r[2] : r \in {q \in list : q[1] = path}}

\* C26: at every non-root location that some variants lack and some have,
\* the missing record of each lacking variant at the path of the location
\* attributes exactly the variants that have the value, never the variant
\* itself, and the comparison of the location adds nothing but these records.
C26_MissingAttributesHolders ==
    libLast = "inspectDifference" /\ Len(InspectedValues) > 1 =>
        \A location \in ComparedLocations :
            (/\ Len(location[1]) > 0
             /\ LackingAt(location[2]) # {}
             /\ PresentAt(location[2]) # {}) =>
                /\ \A m \in LackingAt(location[2]) :
                      /\ Attributed(missingProperties(InspectedDetails, m),
                                    formatPathSegments(location[1])) = PresentAt(location[2])
                      /\ m \notin Attributed(missingProperties(InspectedDetails, m),
                                             formatPathSegments(location[1]))
                /\ compareAtPath(location[1], location[2])
                       = {<<"missing", m, formatPathSegments(location[1]), q>> :
                             m \in LackingAt(location[2]), q \in PresentAt(location[2])}

\* the paths of a list of records
PathsOf(list) == {r[1] : r \in list}

\* C30: for every variant, no path is both among its missingProperties and
\* among its unequalValues, also when a definition has a property whose key
\* is the name of one of its child tags.
C30_NoPathInBothLists ==
    libLast = "inspectDifference" =>
        \A variant \in 1..Len(InspectedValues) :
            PathsOf(missingProperties(InspectedDetails, variant))
                \cap PathsOf(unequalValues(InspectedDetails, variant)) = {}

\* the present values of a location are scalars or of mixed shapes
ScalarsOrMixedShapes(pathValues) ==
    /\ PresentAt(pathValues) # {}
    /\ \E i \in PresentAt(pathValues) : ~isJsonObject(pathValues[i])
    /\ \E i \in PresentAt(pathValues) : ~isArray(pathValues[i])

\* C28: at a location whose present values are scalars or of mixed shapes,
\* the unequal record of variant i at the path of the location attributes
\* variant j exactly when both hold a value there and their serialisations
\* differ; i lists j if and only if j lists i, and no variant lists itself.
C28_UnequalIffSerialisationsDiffer ==
    libLast = "inspectDifference" /\ Len(InspectedValues) > 1 =>
        \A location \in ComparedLocations :
            ScalarsOrMixedShapes(location[2]) =>
                \A i, j \in 1..Len(InspectedValues) :
                    LET label == formatPathSegments(location[1])
                    IN /\ j \in Attributed(unequalValues(InspectedDetails, i), label)
                          <=> /\ i # j
                              /\ {i, j} \subseteq PresentAt(location[2])
                              /\ comparableToCanonical(location[2][i])
                                     # comparableToCanonical(location[2][j])
                       /\ j \in Attributed(unequalValues(InspectedDetails, i), label)
                          <=> i \in Attributed(unequalValues(InspectedDetails, j), label)
                       /\ i \notin Attributed(unequalValues(InspectedDetails, i), label)

\* C29: for every difference with two or more variants the records of all
\* variants together, missing and unequal, are at least one.
C29_SomeRecordPerDifference ==
    (libLast = "inspectDifference" /\ Len(InspectedValues) > 1) =>
        /\ InspectedDetails # {}
        /\ libOutcome[1].missingPropertyCount + libOutcome[1].unequalValueCount > 0

\* three variants told apart by a single record
C29_Witness ==
    /\ libLast = "inspectDifference"
    /\ Len(InspectedValues) = 3
    /\ libOutcome[1].missingPropertyCount + libOutcome[1].unequalValueCount = 1

\* C27: the missing and unequal records inspectDifference reports are the
\* same after the keys of any object and the elements of any array, with or
\* without a matching key, are put in another order in any variant.
C27_RecordsIgnoreOrder ==
    [][libLast' = "reordered" =>
          /\ libOutcome'[1].variantDifferenceDetails = libOutcome[1].variantDifferenceDetails
          /\ libOutcome'[1].missingPropertyCount = libOutcome[1].missingPropertyCount
          /\ libOutcome'[1].unequalValueCount = libOutcome[1].unequalValueCount]_vars

\* an array of scalars and an array matched by name, both reordered, in a
\* difference that has records
C27_Witness ==
    /\ libLast = "reordered"
    /\ InspectedDetails # {}
    /\ \E i \in 1..Len(libInput) :
          /\ HasKey(libInput[i], "x")
          /\ Get(libInput[i], "x") = Arr(<<Num("1"), Num("2")>>)
    /\ \E j \in 1..Len(libInput) :
          /\ HasKey(libInput[j], "tags")
          /\ Len(TagsOf(libInput[j])) = 2
          /\ NodeName(TagsOf(libInput[j])[1]) = "x"

====
